---------------------------- MODULE Spec2Model ----------------------------
(***************************************************************************)
(* A model of the numeric engine of ai-rune-calc (src/src/App.jsx, and the *)
(* earlier single-file version src/unnamed/part_000): the scale-suffix     *)
(* parser and formatter, the duration formatter and the compounding        *)
(* simulator.                                                              *)
(*                                                                         *)
(* JavaScript values are tagged records.  A finite number is the exact     *)
(* rational n/d * 10^e in canonical form (gcd(n,d) = 1, d > 0 coprime to   *)
(* 10, n not divisible by 10, zero is 0/1*10^0), so equal numbers are      *)
(* equal records.  float64 rounding is not modelled (arithmetic is exact); *)
(* float64 overflow is: a result of decimal order above 308 is Infinity.   *)
(* Strings are sequences of one-character strings.                         *)
(***************************************************************************)
EXTENDS Integers, Sequences, FiniteSets, TLC

(***************************************************************************)
(* Integer helpers                                                         *)
(***************************************************************************)
Abs(x) == IF x < 0 THEN -x ELSE x

Sign(x) == IF x < 0 THEN -1 ELSE IF x > 0 THEN 1 ELSE 0

Min(a, b) == IF a <= b THEN a ELSE b

RECURSIVE Gcd(_, _)
Gcd(a, b) == IF b = 0 THEN a ELSE Gcd(b, a % b)

RECURSIVE Pow10(_)
Pow10(k) == IF k <= 0 THEN 1 ELSE 10 * Pow10(k - 1)

\* the number of decimal digits of a positive integer
RECURSIVE NumDigits(_)
NumDigits(x) == IF x < 10 THEN 1 ELSE 1 + NumDigits(x \div 10)

(***************************************************************************)
(* Strings: sequences of one-character strings                             *)
(***************************************************************************)
DigitChars == <<"0", "1", "2", "3", "4", "5", "6", "7", "8", "9">>

UpperChars == <<"A", "B", "C", "D", "E", "F", "G", "H", "I", "J", "K", "L", "M",
                "N", "O", "P", "Q", "R", "S", "T", "U", "V", "W", "X", "Y", "Z">>

LowerChars == <<"a", "b", "c", "d", "e", "f", "g", "h", "i", "j", "k", "l", "m",
                "n", "o", "p", "q", "r", "s", "t", "u", "v", "w", "x", "y", "z">>

Range(f) == {f[i] : i \in DOMAIN f}

IsDigit(c) == c \in Range(DigitChars)

\* [a-zA-Z]
IsLetter(c) == c \in Range(UpperChars) \cup Range(LowerChars)

\* \s
IsSpace(c) == c \in {" ", "\t", "\n"}

DigitVal(c) == (CHOOSE i \in DOMAIN DigitChars : DigitChars[i] = c) - 1

LowerChar(c) ==
    IF c \in Range(UpperChars)
    THEN LowerChars[CHOOSE i \in DOMAIN UpperChars : UpperChars[i] = c]
    ELSE c

\* String.prototype.toLowerCase
toLowerCase(s) == [i \in DOMAIN s |-> LowerChar(s[i])]

RECURSIVE TrimLeft(_)
TrimLeft(s) == IF s # <<>> /\ IsSpace(Head(s)) THEN TrimLeft(Tail(s)) ELSE s

RECURSIVE TrimRight(_)
TrimRight(s) ==
    IF s # <<>> /\ IsSpace(s[Len(s)]) THEN TrimRight(SubSeq(s, 1, Len(s) - 1)) ELSE s

\* String.prototype.trim
trim(s) == TrimRight(TrimLeft(s))

\* the number of consecutive digits, white-space characters and letters of s
\* from position i on
RECURSIVE DigitRun(_, _)
DigitRun(s, i) == IF i <= Len(s) /\ IsDigit(s[i]) THEN 1 + DigitRun(s, i + 1) ELSE 0

RECURSIVE SpaceRun(_, _)
SpaceRun(s, i) == IF i <= Len(s) /\ IsSpace(s[i]) THEN 1 + SpaceRun(s, i + 1) ELSE 0

RECURSIVE LetterRun(_, _)
LetterRun(s, i) == IF i <= Len(s) /\ IsLetter(s[i]) THEN 1 + LetterRun(s, i + 1) ELSE 0

\* whether s holds the characters w from position i on
HasAt(s, i, w) == i + Len(w) - 1 <= Len(s) /\ SubSeq(s, i, i + Len(w) - 1) = w

\* the integer a sequence of digit characters writes
RECURSIVE DigitsVal(_)
DigitsVal(s) ==
    IF s = <<>> THEN 0 ELSE 10 * DigitsVal(SubSeq(s, 1, Len(s) - 1)) + DigitVal(s[Len(s)])

\* the decimal digits of an integer i >= 0
RECURSIVE IntToStr(_)
IntToStr(i) ==
    IF i < 10 THEN <<DigitChars[i + 1]>>
    ELSE IntToStr(i \div 10) \o <<DigitChars[(i % 10) + 1]>>

RECURSIVE Zeros(_)
Zeros(k) == IF k <= 0 THEN <<>> ELSE <<"0">> \o Zeros(k - 1)

(***************************************************************************)
(* JavaScript values                                                       *)
(***************************************************************************)
NaN == [t |-> "nan"]

Infinity == [t |-> "inf", sign |-> 1]

NegInfinity == [t |-> "inf", sign |-> -1]

Undefined == [t |-> "undefined"]

Null == [t |-> "null"]

\* a function object (what an inherited property such as "constructor" holds)
FunctionObject == [t |-> "function"]

Str(chars) == [t |-> "str", s |-> chars]

\* the largest decimal order of a finite float64 (Number.MAX_VALUE is about
\* 1.797e308); a literal such as 1e309 evaluates to Infinity
MaxDecimalOrder == 308

\* a float64 holds fewer than 17 significant decimal digits: in a sum, an
\* operand more than 17 decimal orders below the other is rounded away
DoubleDigits == 17

\* move the factors 2 and 5 of the denominator into the exponent
RECURSIVE ClearDen(_, _, _)
ClearDen(n, d, e) ==
    IF d % 2 = 0 THEN ClearDen(n * 5, d \div 2, e - 1)
    ELSE IF d % 5 = 0 THEN ClearDen(n * 2, d \div 5, e - 1)
    ELSE <<n, d, e>>

\* move the factors 10 of the numerator into the exponent
RECURSIVE StripTens(_, _, _)
StripTens(n, d, e) ==
    IF n # 0 /\ n % 10 = 0 THEN StripTens(n \div 10, d, e + 1)
    ELSE <<n, d, e>>

\* floor(log10(n / d)) for integers n, d > 0
Log10Floor(n, d) ==
    LET Fit(L) == IF L >= 0
                  THEN IF n \div Pow10(L) >= d THEN L ELSE L - 1
                  ELSE IF n > (d - 1) \div Pow10(-L) THEN L ELSE L - 1
    IN  Fit(NumDigits(n) - NumDigits(d))

\* a number written in canonical form: n * 10^e, n not divisible by 10
Lit(n, e) == [t |-> "num", n |-> n, d |-> 1, e |-> e]

Zero == Lit(0, 0)

One == Lit(1, 0)

\* the number n/d * 10^e (d # 0) as a value: canonical, or +-Infinity on overflow
Num(n, d, e) ==
    LET Canon(r) ==
            IF Log10Floor(Abs(r[1]), r[2]) + r[3] > MaxDecimalOrder
            THEN [t |-> "inf", sign |-> Sign(r[1])]
            ELSE [t |-> "num", n |-> r[1], d |-> r[2], e |-> r[3]]
        Shift(c) == Canon(StripTens(c[1], c[2], c[3]))
        Reduce(sn, sd, g) == Shift(ClearDen(sn \div g, sd \div g, e))
        Signed(sn, sd) == Reduce(sn, sd, Gcd(Abs(sn), sd))
    IN  IF n = 0 THEN Zero
        ELSE Signed(IF d < 0 THEN -n ELSE n, Abs(d))

Int2Num(i) == Num(i, 1, 0)

InfinityChars == <<"I", "n", "f", "i", "n", "i", "t", "y">>

\* the longest prefix of t that is a decimal literal (a sign, digits with an
\* optional fraction, an optional exponent; or a signed Infinity): the number
\* v it writes and its length len, NaN and 0 when there is none
ScanFloat(t) ==
    LET \* p: where the digits start; a, b: how many digits before and after
        \* the point; q: where an exponent would start; c digits from ep on
        Scanned(neg, p, a, b, q, eneg, ep, c) ==
            IF HasAt(t, p, InfinityChars)
            THEN [v |-> IF neg THEN NegInfinity ELSE Infinity,
                  len |-> p + Len(InfinityChars) - 1]
            ELSE IF a = 0 /\ b = 0 THEN [v |-> NaN, len |-> 0]
            ELSE [v |-> Num((IF neg THEN -1 ELSE 1)
                              * DigitsVal(SubSeq(t, p, p + a - 1)
                                          \o SubSeq(t, p + a + 1, p + a + b)),
                            1,
                            (IF c = 0 THEN 0
                             ELSE (IF eneg THEN -1 ELSE 1)
                                    * DigitsVal(SubSeq(t, ep, ep + c - 1))) - b),
                  len |-> IF c = 0 THEN q - 1 ELSE ep + c - 1]
        Exponent(neg, p, a, b, q, eneg, ep) ==
            Scanned(neg, p, a, b, q, eneg, ep,
                    IF HasAt(t, q, <<"e">>) \/ HasAt(t, q, <<"E">>)
                    THEN DigitRun(t, ep) ELSE 0)
        ExponentSign(neg, p, a, b, q, eneg) ==
            Exponent(neg, p, a, b, q, eneg,
                     IF eneg \/ HasAt(t, q + 1, <<"+">>) THEN q + 2 ELSE q + 1)
        Mantissa(neg, p, a, b, q) ==
            ExponentSign(neg, p, a, b, q, HasAt(t, q + 1, <<"-">>))
        Fraction(neg, p, a, dot, b) ==
            Mantissa(neg, p, a, b, IF dot THEN p + a + 1 + b ELSE p + a)
        Point(neg, p, a, dot) ==
            Fraction(neg, p, a, dot, IF dot THEN DigitRun(t, p + a + 1) ELSE 0)
        Whole(neg, p, a) == Point(neg, p, a, HasAt(t, p + a, <<".">>))
        Signed(neg, p) == Whole(neg, p, DigitRun(t, p))
        Start(neg) == Signed(neg, IF neg \/ HasAt(t, 1, <<"+">>) THEN 2 ELSE 1)
    IN  Start(HasAt(t, 1, <<"-">>))

\* parseFloat(s): leading white space skipped, trailing text ignored
parseFloat(s) == ScanFloat(TrimLeft(s)).v

\* ToNumber of a string: 0 when blank, the decimal literal the whole trimmed
\* string writes, else NaN
StringToNumber(s) ==
    LET Whole(t, scan) ==
            IF t = <<>> THEN Zero
            ELSE IF scan.len = Len(t) THEN scan.v
            ELSE NaN
        Trimmed(t) == Whole(t, ScanFloat(t))
    IN  Trimmed(trim(s))

IsFin(x) == x.t = "num"

IsNumberType(x) == x.t \in {"num", "nan", "inf"}

\* typeof x
TypeOf(x) ==
    IF IsNumberType(x) THEN "number"
    ELSE IF x.t = "str" THEN "string"
    ELSE IF x.t = "undefined" THEN "undefined"
    ELSE IF x.t = "function" THEN "function"
    ELSE "object"

\* ToNumber(x): what an arithmetic operator, a comparison or Math.min makes
\* of an operand
ToNumber(x) ==
    IF IsNumberType(x) THEN x
    ELSE IF x.t = "null" THEN Zero
    ELSE IF x.t = "str" THEN StringToNumber(x.s)
    ELSE NaN

\* ToBoolean(x)
Truthy(x) ==
    CASE x.t = "num" -> x.n # 0
      [] x.t = "nan" -> FALSE
      [] x.t = "inf" -> TRUE
      [] x.t = "str" -> x.s # <<>>
      [] x.t = "undefined" -> FALSE
      [] x.t = "null" -> FALSE
      [] OTHER -> TRUE

\* the sign of a number that is not NaN
SignOf(x) == IF x.t = "inf" THEN x.sign ELSE Sign(x.n)

\* floor(log10(|x|)) of a finite non-zero number
Order10(x) == Log10Floor(Abs(x.n), x.d) + x.e

Neg(a) ==
    CASE a.t = "nan" -> NaN
      [] a.t = "inf" -> [t |-> "inf", sign |-> -a.sign]
      [] OTHER -> [a EXCEPT !.n = -a.n]

\* a * b, of numbers
Mul(a, b) ==
    IF a.t = "nan" \/ b.t = "nan" THEN NaN
    ELSE IF a.t = "inf" \/ b.t = "inf"
         THEN IF SignOf(a) = 0 \/ SignOf(b) = 0 THEN NaN
              ELSE [t |-> "inf", sign |-> SignOf(a) * SignOf(b)]
    ELSE Num(a.n * b.n, a.d * b.d, a.e + b.e)

\* a / b, of numbers (the sign of a zero is not modelled: x / 0 is +-Infinity
\* by x's sign)
Div(a, b) ==
    IF a.t = "nan" \/ b.t = "nan" THEN NaN
    ELSE IF a.t = "inf"
         THEN IF b.t = "inf" THEN NaN
              ELSE [t |-> "inf", sign |-> IF SignOf(b) < 0 THEN -a.sign ELSE a.sign]
    ELSE IF b.t = "inf" THEN Zero
    ELSE IF b.n = 0
         THEN IF a.n = 0 THEN NaN ELSE [t |-> "inf", sign |-> Sign(a.n)]
    ELSE Num(a.n * b.d, a.d * b.n, a.e - b.e)

\* a + b, of numbers
Add(a, b) ==
    LET Aligned(e, g) ==
            Num((a.n * Pow10(a.e - e)) * (b.d \div g)
                  + (b.n * Pow10(b.e - e)) * (a.d \div g),
                (a.d \div g) * b.d, e)
        Sum(oa, ob) ==
            IF oa - ob > DoubleDigits THEN a
            ELSE IF ob - oa > DoubleDigits THEN b
            ELSE Aligned(Min(a.e, b.e), Gcd(a.d, b.d))
    IN  IF a.t = "nan" \/ b.t = "nan" THEN NaN
        ELSE IF a.t = "inf"
             THEN IF b.t = "inf" /\ b.sign # a.sign THEN NaN ELSE a
        ELSE IF b.t = "inf" THEN b
        ELSE IF a.n = 0 THEN b
        ELSE IF b.n = 0 THEN a
        ELSE Sum(Order10(a), Order10(b))

Sub(a, b) == Add(a, Neg(b))

\* a < b, of numbers; false when either is NaN
Lt(a, b) ==
    LET Ordered(oa, ob) ==
            IF oa # ob
            THEN IF a.n > 0 THEN oa < ob ELSE oa > ob
            ELSE SignOf(Sub(a, b)) < 0
    IN  IF a.t = "nan" \/ b.t = "nan" THEN FALSE
        ELSE IF a.t = "inf" \/ b.t = "inf"
             THEN IF a.t = "inf" /\ b.t = "inf" THEN a.sign < b.sign
                  ELSE IF a.t = "inf" THEN a.sign < 0
                  ELSE b.sign > 0
        ELSE IF Sign(a.n) # Sign(b.n) THEN Sign(a.n) < Sign(b.n)
        ELSE IF a.n = 0 THEN FALSE
        ELSE Ordered(Order10(a), Order10(b))

\* a === b on numbers; false when either is NaN
NumEq(a, b) == a.t # "nan" /\ b.t # "nan" /\ a = b

Le(a, b) == Lt(a, b) \/ NumEq(a, b)

Gt(a, b) == Lt(b, a)

Ge(a, b) == Le(b, a)

\* isFinite(x), isNaN(x)
isFinite(x) == ToNumber(x).t = "num"

isNaN(x) == ToNumber(x).t = "nan"

\* Math.min(a, b)
MathMin(a, b) ==
    LET Smaller(x, y) ==
            IF x.t = "nan" \/ y.t = "nan" THEN NaN
            ELSE IF Lt(y, x) THEN y ELSE x
    IN  Smaller(ToNumber(a), ToNumber(b))

\* any finite number taken for an integer
AnyFiniteNumber(x) == x.t = "num"

\* Number.isInteger(x)
IsInteger(x) == x.t = "num" /\ x.d = 1 /\ x.e >= 0

\* floor(x) of a finite number below 2^31 in absolute value, as an integer
FloorInt(x) ==
    IF x.e >= 0 THEN (x.n * Pow10(x.e)) \div x.d
    ELSE x.n \div (x.d * Pow10(-x.e))

\* Math.floor(x)
MathFloor(x) ==
    IF ~IsFin(x) \/ IsInteger(x) THEN x ELSE Int2Num(FloorInt(x))

\* Math.floor(a / b) for finite a >= 0 and b > 0, the quotient taken whole
FloorDiv(a, b) ==
    LET p == a.n * b.d
        q == a.d * b.n
    IN  Int2Num(IF a.e >= b.e THEN (p * Pow10(a.e - b.e)) \div q
                ELSE p \div (q * Pow10(b.e - a.e)))

\* the remainder left as it was, no unit taken out of it
RemainderKept(a, b) == a

\* a % b for finite a >= 0 and b > 0
Rem(a, b) == Sub(a, Mul(FloorDiv(a, b), b))

\* Math.pow(a, b), b an integer value
RECURSIVE PowInt(_, _)
PowInt(a, k) == IF k = 0 THEN One ELSE Mul(a, PowInt(a, k - 1))

MathPow(a, b) ==
    IF b.t = "nan" THEN NaN
    ELSE IF b.n = 0 THEN One
    ELSE IF a.t = "nan" THEN NaN
    ELSE IF b.n > 0 THEN PowInt(a, FloorInt(b))
    ELSE Div(One, PowInt(a, -FloorInt(b)))

\* the exponent part of exponential notation: e+N or e-N
ExpChars(ord) == <<"e", IF ord < 0 THEN "-" ELSE "+">> \o IntToStr(Abs(ord))

\* Number.prototype.toPrecision(3) of a number
toPrecision3(x) ==
    LET \* the three digits ds of a number of decimal order ord, laid out
        Digits(ds, ord) ==
            IF ord < -6 \/ ord >= 3
            THEN <<ds[1], ".", ds[2], ds[3]>> \o ExpChars(ord)
            ELSE IF ord = 2 THEN ds
            ELSE IF ord >= 0
            THEN SubSeq(ds, 1, ord + 1) \o <<".">> \o SubSeq(ds, ord + 2, 3)
            ELSE <<"0", ".">> \o Zeros(-ord - 1) \o ds
        \* r0 = round(ax / 10^(o0 - 2)), which is 1000 when 999.5 rounds up
        Rounded(r0, o0) ==
            Digits(IntToStr(IF r0 = 1000 THEN 100 ELSE r0),
                   IF r0 = 1000 THEN o0 + 1 ELSE o0)
        Scaled(ax, o0) ==
            Rounded(FloorInt(Add(Mul(ax, Lit(1, 2 - o0)), Lit(5, -1))), o0)
        Magnitude(ax) == Scaled(ax, Order10(ax))
    IN  IF x.t = "nan" THEN <<"N", "a", "N">>
        ELSE IF x.t = "inf" THEN (IF x.sign < 0 THEN <<"-">> ELSE <<>>) \o InfinityChars
        ELSE IF x.n = 0 THEN <<"0", ".", "0", "0">>
        ELSE (IF x.n < 0 THEN <<"-">> ELSE <<>>) \o Magnitude([x EXCEPT !.n = Abs(x.n)])

\* Number::toString of a number that is NaN, infinite or a terminating
\* decimal (d = 1): the only numbers the modelled code converts
NumberToString(x) ==
    LET \* the k digits ds of the number, the decimal point behind the n-th
        Body(ds, k, n) ==
            IF k <= n /\ n <= 21 THEN ds \o Zeros(n - k)
            ELSE IF 0 < n /\ n <= 21
            THEN SubSeq(ds, 1, n) \o <<".">> \o SubSeq(ds, n + 1, k)
            ELSE IF -6 < n /\ n <= 0 THEN <<"0", ".">> \o Zeros(-n) \o ds
            ELSE IF k = 1 THEN ds \o ExpChars(n - 1)
            ELSE <<ds[1], ".">> \o SubSeq(ds, 2, k) \o ExpChars(n - 1)
        Laid(ds) == Body(ds, Len(ds), Len(ds) + x.e)
    IN  IF x.t = "nan" THEN <<"N", "a", "N">>
        ELSE IF x.t = "inf" THEN (IF x.sign < 0 THEN <<"-">> ELSE <<>>) \o InfinityChars
        ELSE IF x.n = 0 THEN <<"0">>
        ELSE (IF x.n < 0 THEN <<"-">> ELSE <<>>) \o Laid(IntToStr(Abs(x.n)))

(***************************************************************************)
(* Objects: a plain object is the sequence of its own properties           *)
(* [k |-> key, v |-> value], in insertion order                            *)
(***************************************************************************)
\* the properties with letters-only names every plain object inherits from
\* Object.prototype; each holds a function
ObjectPrototypeKeys ==
    { <<"c", "o", "n", "s", "t", "r", "u", "c", "t", "o", "r">>,
      <<"h", "a", "s", "O", "w", "n", "P", "r", "o", "p", "e", "r", "t", "y">>,
      <<"i", "s", "P", "r", "o", "t", "o", "t", "y", "p", "e", "O", "f">>,
      <<"p", "r", "o", "p", "e", "r", "t", "y", "I", "s", "E", "n", "u", "m", "e", "r", "a", "b", "l", "e">>,
      <<"t", "o", "L", "o", "c", "a", "l", "e", "S", "t", "r", "i", "n", "g">>,
      <<"t", "o", "S", "t", "r", "i", "n", "g">>,
      <<"v", "a", "l", "u", "e", "O", "f">> }

\* Object.keys(obj)
ObjectKeys(obj) == [i \in DOMAIN obj |-> obj[i].k]

HasOwn(obj, key) == \E i \in DOMAIN obj : obj[i].k = key

\* obj[key]: the own property, else the inherited one, else undefined
GetProp(obj, key) ==
    IF HasOwn(obj, key) THEN obj[CHOOSE i \in DOMAIN obj : obj[i].k = key].v
    ELSE IF key \in ObjectPrototypeKeys THEN FunctionObject
    ELSE Undefined

\* obj[key] = value
SetProp(obj, key, value) ==
    IF HasOwn(obj, key)
    THEN [i \in DOMAIN obj |-> IF obj[i].k = key THEN [k |-> key, v |-> value] ELSE obj[i]]
    ELSE Append(obj, [k |-> key, v |-> value])

\* what a call that raises a TypeError yields
Throw == [t |-> "throw"]

(***************************************************************************)
(* scaleUtils (App.jsx 606-625; part_000 75-92)                            *)
(***************************************************************************)
\* the comparator ([, a], [, b]) => b - a says that x sorts after y
SortsAfter(x, y) == Gt(Sub(y.v, x.v), Zero)

\* x put into a sorted sequence, behind the entries it does not sort before
RECURSIVE InsertEntry(_, _)
InsertEntry(sorted, x) ==
    IF sorted = <<>> THEN <<x>>
    ELSE IF SortsAfter(Head(sorted), x) THEN <<x>> \o sorted
    ELSE <<Head(sorted)>> \o InsertEntry(Tail(sorted), x)

\* Object.entries(scales).sort(([, a], [, b]) => b - a): a stable sort,
\* largest magnitude first
RECURSIVE scaleEntries(_)
scaleEntries(scales) ==
    IF scales = <<>> THEN <<>>
    ELSE InsertEntry(scaleEntries(SubSeq(scales, 1, Len(scales) - 1)), scales[Len(scales)])

\* an index that knows no suffix
NoLowerCaseIndex(scales) == <<>>

\* Object.keys(scales).reduce((acc, key) => { acc[key.toLowerCase()] = scales[key] ... }, {})
RECURSIVE lowerCaseScaleMap(_)
lowerCaseScaleMap(scales) ==
    IF scales = <<>> THEN <<>>
    ELSE SetProp(lowerCaseScaleMap(SubSeq(scales, 1, Len(scales) - 1)),
                 toLowerCase(scales[Len(scales)].k), scales[Len(scales)].v)

\* a table taken to have no two suffixes of one lowercase form
NoConflictingSuffixes(scales) == {}

\* every lowercase form taken as seen twice
EveryLowerCaseSuffix(scales) == {toLowerCase(scales[j].k) : j \in DOMAIN scales}

\* the lowercase forms seen a second time in the loop over Object.keys(scales)
conflictingLowerCaseSuffixes(scales) ==
    { toLowerCase(scales[j].k) : j \in
        { j \in DOMAIN scales :
            \E i \in 1 .. (j - 1) : toLowerCase(scales[i].k) = toLowerCase(scales[j].k) } }

\* the useMemo value: null until the data is loaded
scaleUtils(data) ==
    IF data.status # "loaded" THEN Null
    ELSE [t |-> "object",
          scales |-> data.scales,
          scaleEntries |-> scaleEntries(data.scales),
          lowerCaseScaleMap |-> lowerCaseScaleMap(data.scales),
          conflictingLowerCaseSuffixes |-> conflictingLowerCaseSuffixes(data.scales)]

(***************************************************************************)
(* formatNumber (App.jsx 628-638)                                          *)
(***************************************************************************)
\* num.toString() / num.toPrecision(3): a TypeError when num has no such method
ToStringCall(num) ==
    IF IsNumberType(num) THEN Str(NumberToString(num)) ELSE Throw

ToPrecisionCall(num) ==
    IF IsNumberType(num) THEN Str(toPrecision3(num)) ELSE Throw

\* the index of the first entry with num >= value, whatever its sign
RECURSIVE FirstFitAnySign(_, _, _)
FirstFitAnySign(entries, num, i) ==
    IF i > Len(entries) THEN 0
    ELSE IF Ge(num, entries[i].v) THEN i
    ELSE FirstFitAnySign(entries, num, i + 1)

\* the index of the first entry with value > 0 && num >= value; 0 when none
RECURSIVE FirstFit(_, _, _)
FirstFit(entries, num, i) ==
    IF i > Len(entries) THEN 0
    ELSE IF Gt(entries[i].v, Zero) /\ Ge(num, entries[i].v) THEN i
    ELSE FirstFit(entries, num, i + 1)

\* `${parseFloat(scaledNum)} ${suffix}` with scaledNum = (num / value).toPrecision(3)
ScaledString(num, entry) ==
    Str(NumberToString(parseFloat(toPrecision3(Div(num, entry.v)))) \o <<" ">> \o entry.k)

\* the loop over scaleUtils.scaleEntries and the fallback behind it
FormatScaled(su, num) ==
    LET Found(i) ==
            IF i # 0 THEN ScaledString(num, su.scaleEntries[i])
            ELSE ToPrecisionCall(num)
    IN  IF su.t # "object" THEN Throw
        ELSE Found(FirstFit(su.scaleEntries, num, 1))

formatNumber(su, num) ==
    IF ~Truthy(su) \/ TypeOf(num) # "number" \/ ~isFinite(num) THEN Str(<<"0">>)
    ELSE IF Lt(num, Lit(1, 3)) /\ IsInteger(num) THEN ToStringCall(num)
    ELSE FormatScaled(su, num)

(***************************************************************************)
(* parseRpsInput (App.jsx 640-667; part_000 164-196)                       *)
(***************************************************************************)
\* cleanedInput.match(/^(\d*\.?\d+)\s*([a-zA-Z]+)$/): <<match[1], match[2]>>,
\* or <<>> for null
RegexMatch(s) ==
    LET \* n characters of number, w of white space, l letters
        Matched(n, w, l) ==
            IF n > 0 /\ l > 0 /\ n + w + l = Len(s)
            THEN <<SubSeq(s, 1, n), SubSeq(s, n + w + 1, Len(s))>>
            ELSE <<>>
        Letters(n, w) == Matched(n, w, LetterRun(s, n + w + 1))
        Space(n) == Letters(n, SpaceRun(s, n + 1))
        \* a digits, then a point or none, then b digits
        Number(a, dot, b) ==
            Space(IF dot /\ b > 0 THEN a + 1 + b
                  ELSE IF ~dot /\ a > 0 THEN a
                  ELSE 0)
        Fraction(a, dot) ==
            Number(a, dot, IF dot THEN DigitRun(s, a + 2) ELSE 0)
        Whole(a) == Fraction(a, HasAt(s, a + 1, <<".">>))
    IN  Whole(DigitRun(s, 1))

\* Array.prototype.join(', ')
RECURSIVE Join(_)
Join(strs) ==
    IF strs = <<>> THEN <<>>
    ELSE IF Len(strs) = 1 THEN strs[1]
    ELSE strs[1] \o <<",", " ">> \o Join(Tail(strs))

\* Object.keys(scales).filter(k => k.toLowerCase() === lowerScalePart)
RECURSIVE CaseVariants(_, _)
CaseVariants(scales, lowerScalePart) ==
    IF scales = <<>> THEN <<>>
    ELSE (IF toLowerCase(Head(scales).k) = lowerScalePart THEN <<Head(scales).k>> ELSE <<>>)
           \o CaseVariants(Tail(scales), lowerScalePart)

\* the warning of an ambiguous suffix
warningMessage(scalePart, options) ==
    Str(<<"W", "a", "r", "n", "i", "n", "g", ":", " ", "'">> \o scalePart
        \o <<"'", " ", "i", "s", " ", "a", "m", "b", "i", "g", "u", "o", "u", "s", ".", " ", "U", "s", "e", " ", "o", "n", "e", " ", "o", "f", " ", "t", "h", "e", "s", "e", " ", "c", "a", "s", "e", "-", "s", "e", "n", "s", "i", "t", "i", "v", "e", " ", "o", "p", "t", "i", "o", "n", "s", ":", " ">>
        \o options \o <<".">>)

\* const plainNumber = parseFloat(cleanedInput) and the return behind it
PlainNumber(cleanedInput) ==
    LET Parsed(plainNumber) ==
            IF isNaN(plainNumber) THEN [value |-> Zero, warning |-> Null]
            ELSE [value |-> plainNumber, warning |-> Null]
    IN  Parsed(parseFloat(cleanedInput))

\* the suffix lookups of a matching input; falls through to the plain number
SuffixLookup(su, match, cleanedInput) ==
    LET \* exact is scaleUtils.scales[scalePart]
        Looked(numPart, scalePart, lowerScalePart, exact, multiplier) ==
            IF Truthy(exact)
            THEN [value |-> Mul(numPart, ToNumber(exact)), warning |-> Null]
            ELSE IF lowerScalePart \in su.conflictingLowerCaseSuffixes
            THEN [value |-> Zero,
                  warning |-> warningMessage(scalePart,
                                  Join(CaseVariants(su.scales, lowerScalePart)))]
            ELSE IF Truthy(multiplier)
            THEN [value |-> Mul(numPart, ToNumber(multiplier)), warning |-> Null]
            ELSE PlainNumber(cleanedInput)
        Parts(numPart, scalePart, lowerScalePart) ==
            Looked(numPart, scalePart, lowerScalePart,
                   GetProp(su.scales, scalePart),
                   GetProp(su.lowerCaseScaleMap, lowerScalePart))
    IN  Parts(parseFloat(match[1]), match[2], toLowerCase(match[2]))

\* the body behind the guard: input.trim() raises a TypeError when input is
\* no string, scaleUtils.scales when scaleUtils is null
ParseString(su, input) ==
    LET Matched(cleanedInput, match) ==
            IF match # <<>> THEN SuffixLookup(su, match, cleanedInput)
            ELSE PlainNumber(cleanedInput)
        Cleaned(cleanedInput) == Matched(cleanedInput, RegexMatch(cleanedInput))
    IN  IF input.t # "str" \/ su.t # "object" THEN Throw
        ELSE Cleaned(trim(input.s))

\* the body with no guard before it
parseRpsInputUnguarded(su, input) == ParseString(su, input)

parseRpsInput(su, input) ==
    IF ~Truthy(su) \/ TypeOf(input) # "string" \/ ~Truthy(input)
    THEN [value |-> Zero, warning |-> Null]
    ELSE ParseString(su, input)

(***************************************************************************)
(* formatTime (App.jsx 63-91)                                              *)
(***************************************************************************)
foreverQuotes ==
    << <<"H", "e", "a", "t", " ", "d", "e", "a", "t", "h", " ", "o", "f", " ", "t", "h", "e", " ", "u", "n", "i", "v", "e", "r", "s", "e">>,
       <<"B", "a", "s", "i", "c", "a", "l", "l", "y", " ", "f", "o", "r", "e", "v", "e", "r">>,
       <<"J", "u", "s", "t", " ", "d", "o", "n", "'", "t", " ", "e", "v", "e", "n", " ", "t", "r", "y">>,
       <<"A", "n", " ", "e", "t", "e", "r", "n", "i", "t", "y", " ", "o", "r", " ", "t", "w", "o">>,
       <<"B", "e", "y", "o", "n", "d", " ", "c", "o", "m", "p", "r", "e", "h", "e", "n", "s", "i", "o", "n">> >>

\* 1000 * 31536000
oneThousandYearsInSeconds == Mul(Lit(1, 3), Lit(31536, 3))

\* 100 * 31536000
oneHundredYearsInSeconds == Mul(Lit(1, 2), Lit(31536, 3))

units ==
    << [l |-> <<"y", "e", "a", "r">>,   s |-> Lit(31536, 3)],
       [l |-> <<"d", "a", "y">>,    s |-> Lit(864, 2)],
       [l |-> <<"h", "o", "u", "r">>,   s |-> Lit(36, 2)],
       [l |-> <<"m", "i", "n", "u", "t", "e">>, s |-> Lit(6, 1)],
       [l |-> <<"s", "e", "c", "o", "n", "d">>, s |-> Lit(1, 0)] >>

\* `${count} ${l}${count > 1 ? 's' : ''}`
UnitPart(count, l) ==
    NumberToString(count) \o <<" ">> \o l
        \o (IF Gt(count, One) THEN <<"s">> ELSE <<>>)

\* the loop over units from unit i on: the parts pushed
RECURSIVE UnitParts(_, _)
UnitParts(remaining, i) ==
    IF i > Len(units) THEN <<>>
    ELSE IF Ge(remaining, units[i].s)
         THEN <<UnitPart(FloorDiv(remaining, units[i].s), units[i].l)>>
                  \o UnitParts(Rem(remaining, units[i].s), i + 1)
         ELSE UnitParts(remaining, i + 1)

\* every part kept
SliceAll(parts) == parts

\* parts.slice(0, 3)
Slice3(parts) == SubSeq(parts, 1, Min(3, Len(parts)))

\* formatTime(totalSeconds), with rnd the value of
\* Math.floor(Math.random() * foreverQuotes.length)
formatTime(totalSeconds, rnd) ==
    LET Banded(seconds) ==
            IF Lt(seconds, Zero) \/ ~isFinite(seconds) THEN <<".", ".", ".">>
            ELSE IF Lt(seconds, One) THEN <<"I", "n", "s", "t", "a", "n", "t">>
            ELSE IF Gt(seconds, oneHundredYearsInSeconds) THEN foreverQuotes[rnd + 1]
            ELSE Join(Slice3(UnitParts(seconds, 1)))
    IN  Banded(ToNumber(totalSeconds))

\* the values Math.floor(Math.random() * foreverQuotes.length) can take
RandomIndexes == 0 .. (Len(foreverQuotes) - 1)

(***************************************************************************)
(* calculateCompoundingTime (App.jsx 94-183)                               *)
(***************************************************************************)
\* the most entries the trace log takes
TraceCap == 200

\* the check taken as currentRps < 0
RpsNegative(currentRps) == Lt(currentRps, Zero)

\* if (currentRps <= 0)
RpsExhausted(currentRps) == Le(currentRps, Zero)

\* the chance taken as the time, whatever the rate
TimeForNextRuneAtUnitRate(chance, currentRps) == chance

\* rune.chance / currentRps
TimeForNextRune(chance, currentRps) == Div(chance, currentRps)

\* the multiplier with bonus.max ignored
Uncapped(mult, max) == mult

\* bonus.max ? Math.min(mult, bonus.max) : mult
Capped(mult, max) == IF Truthy(max) THEN MathMin(mult, max) ELSE mult

\* the new currentSpeed with an exponential multiplier dividing the speed
SpeedAfterDividing(bonus, count, currentSpeed) ==
    LET Scaled(mult_before, mult_after) ==
            IF Gt(mult_before, Zero) /\ ~NumEq(mult_before, mult_after)
            THEN Mul(currentSpeed, Div(mult_after, mult_before))
            ELSE currentSpeed
        Linear(n, linear_value) == Add(One, Mul(Int2Num(n), linear_value))
    IN  IF bonus.modifier = "additive" THEN Add(currentSpeed, bonus.value)
        ELSE IF bonus.modifier = "multiplier"
        THEN IF bonus.isExponential \/ bonus.isDualExponential
             THEN Div(currentSpeed, bonus.value)
             ELSE Scaled(Capped(Linear(count, Sub(bonus.value, One)), bonus.max),
                         Capped(Linear(count + 1, Sub(bonus.value, One)), bonus.max))
        ELSE IF bonus.modifier = "power" THEN MathPow(currentSpeed, bonus.value)
        ELSE currentSpeed

\* the new currentSpeed for a runeSpeed bonus with a numeric value
SpeedAfter(bonus, count, currentSpeed) ==
    LET Scaled(mult_before, mult_after) ==
            IF Gt(mult_before, Zero) /\ ~NumEq(mult_before, mult_after)
            THEN Mul(currentSpeed, Div(mult_after, mult_before))
            ELSE currentSpeed
        \* 1 + n * linear_value
        Linear(n, linear_value) == Add(One, Mul(Int2Num(n), linear_value))
    IN  IF bonus.modifier = "additive" THEN Add(currentSpeed, bonus.value)
        ELSE IF bonus.modifier = "multiplier"
        THEN IF bonus.isExponential \/ bonus.isDualExponential
             THEN Mul(currentSpeed, bonus.value)
             ELSE Scaled(Capped(Linear(count, Sub(bonus.value, One)), bonus.max),
                         Capped(Linear(count + 1, Sub(bonus.value, One)), bonus.max))
        ELSE IF bonus.modifier = "power" THEN MathPow(currentSpeed, bonus.value)
        ELSE currentSpeed

\* the new currentBulk for a runeBulk bonus with a numeric value
BulkAfter(bonus, count, currentBulk) ==
    LET Scaled(mult_before, mult_after) ==
            IF Gt(mult_before, Zero) /\ ~NumEq(mult_before, mult_after)
            THEN Mul(currentBulk, Div(mult_after, mult_before))
            ELSE currentBulk
        Linear(n, linear_value) == Add(One, Mul(Int2Num(n), linear_value))
    IN  IF bonus.modifier = "additive" THEN Add(currentBulk, bonus.value)
        ELSE IF bonus.modifier = "multiplier"
        THEN IF bonus.isExponential \/ bonus.isDualExponential
             THEN Mul(currentBulk, bonus.value)
             ELSE Scaled(Capped(Linear(count, Sub(bonus.value, One)), bonus.max),
                         Capped(Linear(count + 1, Sub(bonus.value, One)), bonus.max))
        ELSE IF bonus.modifier = "power" THEN MathPow(currentBulk, bonus.value)
        ELSE currentBulk

\* the callback with every bonus that is not on runeSpeed taken as one on
\* runeBulk
ApplyBonusAnyStat(rates, bonus, count) ==
    IF TypeOf(bonus.value) # "number" THEN rates
    ELSE IF bonus.type = "runeSpeed"
    THEN [rates EXCEPT !.speed = SpeedAfter(bonus, count, rates.speed)]
    ELSE [rates EXCEPT !.bulk = BulkAfter(bonus, count, rates.bulk)]

\* the callback of rune.bonuses.forEach, on the rates [speed, bulk]
ApplyBonus(rates, bonus, count) ==
    IF TypeOf(bonus.value) # "number" THEN rates
    ELSE IF bonus.type = "runeSpeed"
    THEN [rates EXCEPT !.speed = SpeedAfter(bonus, count, rates.speed)]
    ELSE IF bonus.type = "runeBulk"
    THEN [rates EXCEPT !.bulk = BulkAfter(bonus, count, rates.bulk)]
    ELSE rates

\* the bonuses applied from the last of the list to the first
RECURSIVE ApplyBonusesLastFirst(_, _, _)
ApplyBonusesLastFirst(rates, bonuses, count) ==
    IF bonuses = <<>> THEN rates
    ELSE ApplyBonus(ApplyBonusesLastFirst(rates, Tail(bonuses), count),
                    Head(bonuses), count)

\* rune.bonuses.forEach(...): the bonuses applied in list order
RECURSIVE ApplyBonuses(_, _, _)
ApplyBonuses(rates, bonuses, count) ==
    IF bonuses = <<>> THEN rates
    ELSE ApplyBonuses(ApplyBonus(rates, Head(bonuses), count), Tail(bonuses), count)

\* the trace line of one acquisition, formatNumber and formatTime being the
\* formatters both callers pass
TraceLine(su, rnd, count, speed, bulk, rps, timeForNextRune) ==
    <<"R", "u", "n", "e", " ", "#">> \o NumberToString(Int2Num(count + 1))
        \o <<":", " ", "S", "p", "e", "e", "d", "=">> \o formatNumber(su, speed).s
        \o <<",", " ", "B", "u", "l", "k", "=">> \o formatNumber(su, bulk).s
        \o <<",", " ", "R", "P", "S", "=">> \o formatNumber(su, rps).s
        \o <<" ", "-", ">", " ", "T", "i", "m", "e", ":", " ">> \o formatTime(timeForNextRune, rnd)

RpsError == <<"E", "r", "r", "o", "r", ":", " ", "R", "P", "S", " ", "i", "s", " ", "z", "e", "r", "o", " ", "o", "r", " ", "n", "e", "g", "a", "t", "i", "v", "e", ".">>

\* the trace log returned when the loop finds currentRps <= 0
AbortTrace(log) == <<RpsError>>

\* a log that takes every line, however long it is
TracePushUncapped(log, line) == Append(log, line)

\* traceLog after the step's push
TracePush(log, line) == IF Len(log) < TraceCap THEN Append(log, line) ELSE log

\* an array as a value (an empty array is truthy too)
Arr(elems) == [t |-> "array", a |-> elems]

(***************************************************************************)
(* Inputs                                                                  *)
(***************************************************************************)
Entry(key, value) == [k |-> key, v |-> value]

\* generateScaleMap() of part_000, abridged: the identity scale, long and
\* short names of equal magnitude, the two suffixes that differ in case only,
\* and the first magnitudes that are beyond float64 (1e309 is Infinity)
generateScaleMap ==
    << Entry(<<>>, Num(1, 1, 0)),
       Entry(<<"T", "h", "o", "u", "s", "a", "n", "d">>, Num(1, 1, 3)),
       Entry(<<"M", "i", "l", "l", "i", "o", "n">>, Num(1, 1, 6)),
       Entry(<<"K">>, Num(1, 1, 3)),
       Entry(<<"M">>, Num(1, 1, 6)),
       Entry(<<"B">>, Num(1, 1, 9)),
       Entry(<<"T", "q", "g">>, Num(1, 1, 132)),
       Entry(<<"T", "Q", "g">>, Num(1, 1, 162)),
       Entry(<<"U", "C", "e">>, Num(1, 1, 306)),
       Entry(<<"D", "C", "e">>, Num(1, 1, 309)),
       Entry(<<"T", "C", "e">>, Num(1, 1, 312)) >>

\* a dataset of three scales, and one where three suffixes share a lowercase
\* form and a fourth has one case variant only
SmallScales ==
    << Entry(<<>>, Num(1, 1, 0)),
       Entry(<<"K">>, Num(1, 1, 3)),
       Entry(<<"M">>, Num(1, 1, 6)) >>

CollidingScales ==
    << Entry(<<"M">>, Num(1, 1, 6)),
       Entry(<<"a", "b">>, Num(1, 1, 2)),
       Entry(<<"A", "b">>, Num(1, 1, 4)),
       Entry(<<"K">>, Num(1, 1, 3)),
       Entry(<<"A", "B">>, Num(1, 1, 5)) >>

\* a dataset with a zero and a negative magnitude
OddScales ==
    << Entry(<<>>, Num(1, 1, 0)),
       Entry(<<"Z">>, Zero),
       Entry(<<"N", "e", "g">>, Num(-1, 1, 3)),
       Entry(<<"K">>, Num(1, 1, 3)) >>

ScaleTables == {generateScaleMap, SmallScales, CollidingScales, OddScales}

\* appData: as first rendered, after a failed fetch, after a successful one
LoadingData == [status |-> "loading", scales |-> Null]

ErrorData == [status |-> "error", scales |-> <<>>]

LoadedData(scales) == [status |-> "loaded", scales |-> scales]

NotCalled == [t |-> "notcalled"]

\* the largest endCount, startCount and multiple k drawn freely
MaxCount == 3

MaxStart == 1

MaxK == 12

Bonus(type, modifier, value, max, isExponential) ==
    [type |-> type, modifier |-> modifier, value |-> value, max |-> max,
     isExponential |-> isExponential, isDualExponential |-> FALSE]

Rune(chance, max, bonuses) ==
    [t |-> "object", chance |-> chance, max |-> max, bonuses |-> bonuses]

\* 93117024 = 4 * lcm(10..20) / 10: every step of the 1.1 multiplier divides it
Runes ==
    { Rune(Num(12, 1, 0), TraceCap + MaxCount, Arr(<<>>)),
      Rune(Num(1, 1, 12), 1, Arr(<<>>)),
      Rune(Num(12, 1, 0), MaxCount, Undefined),
      Rune(Num(12, 1, 0), MaxCount,
           Arr(<<Bonus("runeSpeed", "multiplier", Num(15, 1, -1), Num(2, 1, 0), FALSE)>>)),
      Rune(Num(93117024, 1, 0), 20,
           Arr(<<Bonus("runeSpeed", "multiplier", Num(11, 1, -1), Num(2, 1, 0), FALSE)>>)),
      Rune(Num(12, 1, 0), MaxCount,
           Arr(<<Bonus("runeBulk", "multiplier", Num(2, 1, 0), Num(1, 1, 0), FALSE)>>)),
      Rune(Num(12, 1, 0), MaxCount,
           Arr(<<Bonus("runeSpeed", "multiplier", Num(5, 1, -1), Undefined, FALSE)>>)),
      Rune(Num(12, 1, 0), MaxCount,
           Arr(<<Bonus("runeSpeed", "multiplier", Num(15, 1, -1), Num(5, 1, -1), FALSE)>>)),
      Rune(Num(12, 1, 0), MaxCount,
           Arr(<<Bonus("runeBulk", "multiplier", Num(2, 1, 0), Num(0, 1, 0), FALSE)>>)),
      Rune(Num(12, 1, 0), MaxCount,
           Arr(<<Bonus("runeSpeed", "additive", Num(-1, 1, 0), Undefined, FALSE),
             Bonus("runeBulk", "additive", Num(1, 1, 0), Undefined, FALSE)>>)),
      Rune(Num(12, 1, 0), MaxCount,
           Arr(<<Bonus("runeSpeed", "multiplier", Num(2, 1, 0), Undefined, TRUE)>>)),
      Rune(Num(12, 1, 0), MaxCount,
           Arr(<<Bonus("runeSpeed", "additive", Num(1, 1, 0), Undefined, FALSE),
             [Bonus("runeSpeed", "multiplier", Num(2, 1, 0), Undefined, FALSE)
                 EXCEPT !.isDualExponential = TRUE]>>)),
      Rune(Num(12, 1, 0), MaxCount,
           Arr(<<Bonus("energy", "multiplier", Num(2, 1, 0), Undefined, TRUE),
             Bonus("runeSpeed", "additive", Str(<<"?">>), Undefined, FALSE),
             Bonus("runeBulk", "multiplier", Undefined, Undefined, FALSE)>>)),
      Rune(Num(12, 1, 0), MaxCount,
           Arr(<<Bonus("energy", "multiplier", Num(2, 1, 0), Undefined, TRUE),
             Bonus("runeSpeed", "additive", Str(<<"?">>), Undefined, FALSE),
             Bonus("runeSpeed", "subtractive", Num(1, 1, 0), Undefined, FALSE),
             Bonus("runeBulk", "power", Num(-1, 1, 0), Undefined, FALSE)>>)) }

Rates == {Num(-1, 1, 0), Num(0, 1, 0), Num(1, 2, 0), Num(1, 1, 0), Num(2, 1, 0)}

MaxRunRates == {Num(1, 1, 0), Num(2, 1, 0)}

(***************************************************************************)
(* State                                                                   *)
(***************************************************************************)
VARIABLES
    appData,            \* the App state holding the dataset and its status
    rune, startCount, endCount, initialSpeed, initialBulk,
                        \* the arguments of a calculateCompoundingTime call
    pc,                 \* where that call is: "call", "loop", "done", or "idle"
    count, currentSpeed, currentBulk, totalTimeSeconds, traceLog,
                        \* its locals
    result,             \* what it returned
    firstResult,        \* what an earlier call with the same arguments returned
    num, formatted,     \* an argument of formatNumber and what it returned
    input, parsed,      \* an argument of parseRpsInput and what it returned
    totalSeconds, timeText,
                        \* an argument of formatTime and what it returned
    localStorage,       \* the browser's store, per input key a string or null
    savedBefore,        \* what the store held when the page was opened
    inputs,             \* the React state of the six persisted inputs
    queued, queuedData, \* state updates set but not yet rendered
    mounted,            \* whether the mount effects have run
    fetchState,         \* "idle", "pending", "done" or "failed"
    saveEffectPending,  \* whether a render changed a dependency of the save effect
    edited,             \* whether the user has changed an input
    simCall             \* the arguments a calculator passed to the simulator

simVars == <<rune, startCount, endCount, initialSpeed, initialBulk, pc, count,
             currentSpeed, currentBulk, totalTimeSeconds, traceLog, result,
             firstResult>>

scaleVars == <<num, formatted, input, parsed>>

timeVars == <<totalSeconds, timeText>>

pageVars == <<localStorage, savedBefore, inputs, queued, queuedData, mounted,
              fetchState, saveEffectPending, edited, simCall>>

vars == <<appData, simVars, scaleVars, timeVars, pageVars>>

NoSim ==
    /\ rune = Undefined /\ startCount = 0 /\ endCount = 0
    /\ initialSpeed = Undefined /\ initialBulk = Undefined
    /\ pc = "idle" /\ count = 0
    /\ currentSpeed = Undefined /\ currentBulk = Undefined
    /\ totalTimeSeconds = Undefined /\ traceLog = <<>> /\ result = NotCalled
    /\ firstResult = NotCalled

NoScale ==
    num = NotCalled /\ formatted = NotCalled /\ input = NotCalled /\ parsed = NotCalled

NoTime == totalSeconds = NotCalled /\ timeText = NotCalled

\* the six inputs kept in localStorage under runeCalc_<name>
InputKeys ==
    {"rawRpsInput", "selectedRuneName", "currentCount", "targetCount",
     "runeSpeed", "runeBulk"}

\* the keys the load effect reads back
LoadedKeys == InputKeys \ {"selectedRuneName"}

\* the useState defaults
Defaults ==
    [rawRpsInput |-> Str(<<"1", "M">>), selectedRuneName |-> Str(<<"S", "u", "p", "e", "r", "s", "t", "a", "r">>),
     currentCount |-> Str(<<"1", "8">>), targetCount |-> Str(<<"1", "9">>),
     runeSpeed |-> Str(<<"1", "1", ".", "9", "Q", "n", "T", "g">>), runeBulk |-> Str(<<"5", "7", ".", "6", "2", "Q", "d", "q", "g">>)]

\* localStorage.getItem gives null for every key
NoStorage == [k \in InputKeys |-> Null]

\* no state update waiting for the next render
NothingQueued == [k \in InputKeys |-> Null]

NoData == [status |-> "none"]

NoPage ==
    /\ localStorage = NoStorage /\ savedBefore = NoStorage
    /\ inputs = Defaults /\ queued = NothingQueued /\ queuedData = NoData
    /\ mounted = FALSE /\ fetchState = "idle" /\ saveEffectPending = FALSE
    /\ edited = FALSE /\ simCall = NotCalled

(***************************************************************************)
(* The simulator, one loop iteration a step                                *)
(***************************************************************************)
\* a call with counts and rates drawn freely (the Time to X tab; of the rune
\* of chance 1e12, whose steps last longer than a century, one step), one from
\* count 0 up to the rune's own maximum (the Time to Max tab), one of a
\* rune of chance 1e12 at speed 1e6 and bulk 1, or one at the speed NaN that
\* parseRpsInput gives for a suffix such as "toString" and that passes the
\* callers' initialRps <= 0
Init ==
    /\ appData = LoadedData(generateScaleMap)
    /\ rune \in Runes
    /\ \/ /\ startCount \in 0 .. MaxStart
          /\ endCount \in 0 .. MaxCount
          /\ rune.chance = Lit(1, 12) => endCount <= startCount + 1
          /\ initialSpeed \in Rates
          /\ initialBulk \in Rates
       \/ /\ startCount = 0
          /\ endCount = rune.max
          /\ initialSpeed \in MaxRunRates
          /\ initialBulk \in MaxRunRates
       \/ /\ rune.chance = Lit(1, 12)
          /\ startCount = 0
          /\ endCount \in 0 .. MaxCount
          /\ initialSpeed = Lit(1, 6)
          /\ initialBulk = One
       \/ /\ startCount = 0
          /\ endCount \in 0 .. MaxCount
          /\ initialSpeed = NaN
          /\ initialBulk = One
    /\ pc = "call"
    /\ count = 0
    /\ currentSpeed = Undefined /\ currentBulk = Undefined
    /\ totalTimeSeconds = Undefined /\ traceLog = <<>> /\ result = NotCalled
    /\ firstResult = NotCalled
    /\ NoScale /\ NoTime /\ NoPage

\* if (!rune || !rune.bonuses) return { totalTime: Infinity, finalRps: 0, traceLog: [] }
SimReject ==
    /\ pc = "call"
    /\ (~Truthy(rune) \/ ~Truthy(rune.bonuses))
    /\ result' = [totalTime |-> Infinity, finalRps |-> Zero, traceLog |-> <<>>]
    /\ pc' = "done"
    /\ UNCHANGED <<appData, rune, startCount, endCount, initialSpeed, initialBulk,
                   firstResult,
                   count, currentSpeed, currentBulk, totalTimeSeconds, traceLog,
                   scaleVars, timeVars, pageVars>>

\* the loop entered with the trace log of the call before
SimEnterSharedLog ==
    /\ pc = "call"
    /\ Truthy(rune) /\ Truthy(rune.bonuses)
    /\ currentSpeed' = initialSpeed
    /\ currentBulk' = initialBulk
    /\ totalTimeSeconds' = Zero
    /\ count' = startCount
    /\ pc' = "loop"
    /\ UNCHANGED <<appData, rune, startCount, endCount, initialSpeed, initialBulk,
                   firstResult, traceLog, result, scaleVars, timeVars, pageVars>>

\* the locals set up, the loop entered
SimEnter ==
    /\ pc = "call"
    /\ Truthy(rune) /\ Truthy(rune.bonuses)
    /\ currentSpeed' = initialSpeed
    /\ currentBulk' = initialBulk
    /\ totalTimeSeconds' = Zero
    /\ traceLog' = <<>>
    /\ count' = startCount
    /\ pc' = "loop"
    /\ UNCHANGED <<appData, rune, startCount, endCount, initialSpeed, initialBulk,
                   firstResult,
                   result, scaleVars, timeVars, pageVars>>

\* an iteration that finds currentRps <= 0 returns
SimAbort ==
    /\ pc = "loop"
    /\ count < endCount
    /\ RpsExhausted(Mul(currentSpeed, currentBulk))
    /\ result' = [totalTime |-> Infinity, finalRps |-> Zero,
                  traceLog |-> AbortTrace(traceLog)]
    /\ pc' = "done"
    /\ UNCHANGED <<appData, rune, startCount, endCount, initialSpeed, initialBulk,
                   firstResult,
                   count, currentSpeed, currentBulk, totalTimeSeconds, traceLog,
                   scaleVars, timeVars, pageVars>>

\* an iteration that applies the bonuses first and charges the time at the
\* new rates
SimStepBonusesFirst ==
    /\ pc = "loop"
    /\ count < endCount
    /\ ~RpsExhausted(Mul(currentSpeed, currentBulk))
    /\ \E rnd \in RandomIndexes :
       \E rates \in {ApplyBonuses([speed |-> currentSpeed, bulk |-> currentBulk],
                                  rune.bonuses.a, count)} :
       \E currentRps \in {Mul(rates.speed, rates.bulk)} :
       \E timeForNextRune \in {TimeForNextRune(rune.chance, currentRps)} :
         /\ totalTimeSeconds' = Add(totalTimeSeconds, timeForNextRune)
         /\ traceLog' = TracePush(traceLog,
                            TraceLine(scaleUtils(appData), rnd, count, currentSpeed,
                                      currentBulk, currentRps, timeForNextRune))
         /\ currentSpeed' = rates.speed
         /\ currentBulk' = rates.bulk
    /\ count' = count + 1
    /\ UNCHANGED <<appData, rune, startCount, endCount, initialSpeed, initialBulk,
                   firstResult,
                   pc, result, scaleVars, timeVars, pageVars>>

\* a whole iteration: the time of the next rune, the trace line, the bonuses
SimStep ==
    /\ pc = "loop"
    /\ count < endCount
    /\ ~RpsExhausted(Mul(currentSpeed, currentBulk))
    /\ \E rnd \in RandomIndexes :
       \E currentRps \in {Mul(currentSpeed, currentBulk)} :
       \E timeForNextRune \in {TimeForNextRune(rune.chance, currentRps)} :
       \E rates \in {ApplyBonuses([speed |-> currentSpeed, bulk |-> currentBulk],
                                  rune.bonuses.a, count)} :
         /\ totalTimeSeconds' = Add(totalTimeSeconds, timeForNextRune)
         /\ traceLog' = TracePush(traceLog,
                            TraceLine(scaleUtils(appData), rnd, count, currentSpeed,
                                      currentBulk, currentRps, timeForNextRune))
         /\ currentSpeed' = rates.speed
         /\ currentBulk' = rates.bulk
    /\ count' = count + 1
    /\ UNCHANGED <<appData, rune, startCount, endCount, initialSpeed, initialBulk,
                   firstResult,
                   pc, result, scaleVars, timeVars, pageVars>>

\* the loop left one iteration early
SimReturnEarly ==
    /\ pc = "loop"
    /\ ~(count + 1 < endCount)
    /\ result' = [totalTime |-> totalTimeSeconds,
                  finalRps |-> Mul(currentSpeed, currentBulk),
                  traceLog |-> traceLog]
    /\ pc' = "done"
    /\ UNCHANGED <<appData, rune, startCount, endCount, initialSpeed, initialBulk,
                   firstResult,
                   count, currentSpeed, currentBulk, totalTimeSeconds, traceLog,
                   scaleVars, timeVars, pageVars>>

\* the loop left: finalRps computed, the result returned
SimReturn ==
    /\ pc = "loop"
    /\ ~(count < endCount)
    /\ result' = [totalTime |-> totalTimeSeconds,
                  finalRps |-> Mul(currentSpeed, currentBulk),
                  traceLog |-> traceLog]
    /\ pc' = "done"
    /\ UNCHANGED <<appData, rune, startCount, endCount, initialSpeed, initialBulk,
                   firstResult,
                   count, currentSpeed, currentBulk, totalTimeSeconds, traceLog,
                   scaleVars, timeVars, pageVars>>

\* the caller computes again with the arguments unchanged (the useMemo of a
\* calculator on a later render); the locals of the call that returned are
\* dead
SimAgain ==
    /\ pc = "done"
    /\ firstResult = NotCalled
    /\ firstResult' = result
    /\ result' = NotCalled
    /\ pc' = "call"
    /\ UNCHANGED <<appData, rune, startCount, endCount, initialSpeed, initialBulk,
                   count, currentSpeed, currentBulk, totalTimeSeconds, traceLog,
                   scaleVars, timeVars, pageVars>>

Next == SimReject \/ SimEnter \/ SimAbort \/ SimStep \/ SimReturn \/ SimAgain

Spec == Init /\ [][Next]_vars

\* a step of the loop: the count goes up by one
Stepped == pc = "loop" /\ count' = count + 1

\* the loop has an iteration to run: the states in which SimStep is enabled
SimStepEnabled ==
    /\ pc = "loop"
    /\ count < endCount
    /\ ~RpsExhausted(Mul(currentSpeed, currentBulk))

\* a call is synchronous: once made it runs until it returns. The second
\* conjunct is WF_vars(SimStep) with its ENABLED written out, and the step
\* recognised by what it does to the count
SpecFair ==
    /\ Spec
    /\ WF_vars(SimReject \/ SimEnter \/ SimAbort \/ SimReturn)
    /\ (<>[]SimStepEnabled => []<>(<<Stepped>>_vars))


(***************************************************************************)
(* Properties of the simulator                                             *)
(***************************************************************************)
\* the call got past the guard on rune and rune.bonuses
HasBonusList == Truthy(rune) /\ Truthy(rune.bonuses)

\* the loop ran to its end: the call returned from behind it
CompletedNormally == pc = "done" /\ HasBonusList /\ ~(count < endCount)

\* the call returned from inside the loop, at the check of currentRps
Aborted == pc = "done" /\ HasBonusList /\ count < endCount

\* C1: a rune with an empty bonus list, simulated from count 0 to N >= 1 at
\* speed * bulk > 0, returns totalTime = N * chance / (speed * bulk) and
\* finalRps = speed * bulk.
C1_NoBonusClosedForm ==
    (/\ pc = "done"
     /\ rune.bonuses = Arr(<<>>)
     /\ startCount = 0
     /\ endCount >= 1
     /\ Gt(Mul(initialSpeed, initialBulk), Zero))
    => /\ result.totalTime = Div(Mul(Int2Num(endCount), rune.chance),
                                 Mul(initialSpeed, initialBulk))
       /\ result.finalRps = Mul(initialSpeed, initialBulk)

\* two runes of chance 12 at speed 0.5 and bulk 0.5 take 2 * 12 / 0.25 = 96 s
C1_Witness ==
    /\ pc = "done"
    /\ rune.bonuses = Arr(<<>>)
    /\ rune.chance = Lit(12, 0)
    /\ startCount = 0
    /\ endCount = 2
    /\ initialSpeed = Lit(5, -1)
    /\ initialBulk = Lit(5, -1)
    /\ result.totalTime = Lit(96, 0)
    /\ result.finalRps = Lit(25, -2)

\* the rune's only bonus is a linear runeSpeed multiplier of magnitude > 1
\* with a cap >= 1
SingleCappedSpeedBonus ==
    /\ HasBonusList
    /\ Len(rune.bonuses.a) = 1
    /\ rune.bonuses.a[1].type = "runeSpeed"
    /\ rune.bonuses.a[1].modifier = "multiplier"
    /\ ~rune.bonuses.a[1].isExponential
    /\ ~rune.bonuses.a[1].isDualExponential
    /\ TypeOf(rune.bonuses.a[1].value) = "number"
    /\ Gt(rune.bonuses.a[1].value, One)
    /\ Truthy(rune.bonuses.a[1].max)
    /\ Ge(rune.bonuses.a[1].max, One)

\* C2: with a single linear runeSpeed multiplier (magnitude > 1, cap >= 1)
\* simulated from count 0, after every step currentSpeed / initialSpeed is
\* never above the cap, and a step taken with the multiplier at the cap leaves
\* currentSpeed unchanged.
C2_CapNeverExceeded ==
    [][ (SingleCappedSpeedBonus /\ startCount = 0 /\ pc = "loop" /\ count' = count + 1)
        => /\ ~Gt(Div(currentSpeed', initialSpeed), rune.bonuses.a[1].max)
           /\ (NumEq(Div(currentSpeed, initialSpeed), rune.bonuses.a[1].max)
               => currentSpeed' = currentSpeed) ]_vars

\* the 1.1 multiplier capped at 2 has reached its cap by step 10 and is still
\* there two steps later
C2_Witness ==
    /\ pc = "loop"
    /\ SingleCappedSpeedBonus
    /\ rune.bonuses.a[1].value = Lit(11, -1)
    /\ rune.bonuses.a[1].max = Lit(2, 0)
    /\ startCount = 0
    /\ count = 12
    /\ NumEq(Div(currentSpeed, initialSpeed), Lit(2, 0))

\* how a trace line of acquisition number n starts
RunePrefix(n) == <<"R", "u", "n", "e", " ", "#">> \o IntToStr(n) \o <<":">>

C4_NonPositiveRpsReturnsAtOnce ==
    (/\ pc = "done"
     /\ HasBonusList
     /\ endCount > startCount
     /\ Le(Mul(initialSpeed, initialBulk), Zero))
    => /\ result = [totalTime |-> Infinity, finalRps |-> Zero, traceLog |-> <<RpsError>>]
       /\ count = startCount
       /\ totalTimeSeconds = Zero
       /\ currentSpeed = initialSpeed
       /\ currentBulk = initialBulk

\* speed -1 and bulk 2 on a rune with bonuses
C4_Witness ==
    /\ pc = "done"
    /\ HasBonusList
    /\ rune.bonuses.a # <<>>
    /\ endCount > startCount
    /\ initialSpeed = Lit(-1, 0)
    /\ initialBulk = Lit(2, 0)
    /\ result.totalTime = Infinity
    /\ result.traceLog = <<RpsError>>

\* C5: an abort at a step after the first returns totalTime = +Infinity and
\* a trace log made of the entries collected in the earlier steps followed
\* by one error entry.
C5_AbortKeepsEarlierTrace ==
    (Aborted /\ count > startCount)
    => /\ result.totalTime = Infinity
       /\ result.traceLog = Append(traceLog, RpsError)

(***************************************************************************)
(* The formatter and the parser, called on their own                       *)
(***************************************************************************)
\* the multiples m * k of the magnitudes of a table, k = 1 .. MaxK
ScaledMultiples(scales) ==
    {Mul(scales[i].v, Int2Num(k)) : i \in DOMAIN scales, k \in 1 .. MaxK}

\* numbers of every kind, and values that are no numbers
OtherValues ==
    { NaN, Infinity, NegInfinity, Undefined, Null, Str(<<"5">>), Arr(<<>>),
      Zero, Lit(5, 0), Lit(-5, 0), Lit(15, -1), Lit(-55, -1), Lit(5, -1),
      Lit(999, 0), Lit(1234, 0), Lit(1234567, 0), Lit(5, 200),
      Lit(9995, -1), Lit(99949, -2), Lit(12345, -2), Lit(5, -7) }

FormatInputs(data) ==
    OtherValues \cup (IF data.status = "loaded" THEN ScaledMultiples(data.scales) ELSE {})

\* decimal numbers as typed, with the number each writes
NumberTexts ==
    { [text |-> <<"5">>, value |-> Lit(5, 0)],
      [text |-> <<"1", ".", "5">>, value |-> Lit(15, -1)] }

\* suffixes as typed: members of the tables, other case variants of them,
\* and letters that are no suffix
SuffixTexts ==
    { <<"T", "q", "g">>, <<"T", "Q", "g">>, <<"t", "Q", "g">>, <<"t", "q", "g">>, <<"T", "Q", "G">>, <<"a", "b">>, <<"A", "b">>, <<"A", "B">>, <<"a", "B">>,
      <<"K">>, <<"k">>, <<"M">>, <<"D", "C", "e">>, <<"x", "y", "z">>,
      <<"t", "o", "S", "t", "r", "i", "n", "g">>, <<"Z">>, <<"z">>,
      <<"N", "e", "g">>, <<"n", "e", "g">> }

ParseInputs ==
    {Str(n.text \o s) : n \in NumberTexts, s \in SuffixTexts}
    \cup {Str(s) : s \in { <<>>, <<" ">>, <<"5">>, <<" ", "5", " ", "K", " ">>, <<"5", " ", "T", "q", "g">>, <<"1", "e", "3">>, <<"-", "5">>,
                           <<".", "5", "K">>, <<"a", "b", "c">>, <<"5", " ", "x", "5">>, <<"1", ".", "5", ".", "2">>, <<"I", "n", "f", "i", "n", "i", "t", "y">> }}
    \cup {Null, Undefined, Lit(5, 0), NaN, Arr(<<>>)}

\* the dataset still loading, failed to load, or loaded
InitScale ==
    /\ \/ appData = LoadingData
       \/ appData = ErrorData
       \/ \E s \in ScaleTables : appData = LoadedData(s)
    /\ NoSim /\ NoScale /\ NoTime /\ NoPage

\* formatNumber(num)
FormatCall ==
    /\ num = NotCalled
    /\ \E n \in FormatInputs(appData) :
         /\ num' = n
         /\ formatted' = formatNumber(scaleUtils(appData), n)
    /\ UNCHANGED <<appData, simVars, input, parsed, timeVars, pageVars>>

\* parseRpsInput(input)
ParseCall ==
    /\ input = NotCalled
    /\ \E s \in ParseInputs :
         /\ input' = s
         /\ parsed' = parseRpsInput(scaleUtils(appData), s)
    /\ UNCHANGED <<appData, simVars, num, formatted, timeVars, pageVars>>

\* parseRpsInput(formatNumber(num))
Reparse ==
    /\ formatted # NotCalled
    /\ input = NotCalled
    /\ input' = formatted
    /\ parsed' = parseRpsInput(scaleUtils(appData), formatted)
    /\ UNCHANGED <<appData, simVars, num, formatted, timeVars, pageVars>>

NextScale == FormatCall \/ ParseCall \/ Reparse

SpecScale == InitScale /\ [][NextScale]_vars

(***************************************************************************)
(* Properties of the parser and the formatter                              *)
(***************************************************************************)
\* whether the characters w occur in s
Contains(s, w) == \E i \in 1 .. Len(s) : HasAt(s, i, w)

\* the entries of a table whose suffix has the lowercase form of sfx
SameLowercase(scales, sfx) ==
    {i \in DOMAIN scales : toLowerCase(scales[i].k) = toLowerCase(sfx)}

\* C6: in a table where two or more suffixes share a lowercase form, a
\* number followed by one of them in its exact case parses to the number
\* times that suffix's magnitude with no warning; followed by any other case
\* variant it parses to 0 with a warning that lists every member.
C6_AmbiguousSuffix ==
    \A n \in NumberTexts, sfx \in SuffixTexts :
        (/\ parsed # NotCalled
         /\ appData.status = "loaded"
         /\ input = Str(n.text \o sfx)
         /\ Cardinality(SameLowercase(appData.scales, sfx)) >= 2)
        => IF \E i \in DOMAIN appData.scales : appData.scales[i].k = sfx
           THEN \E i \in DOMAIN appData.scales :
                    /\ appData.scales[i].k = sfx
                    /\ parsed = [value |-> Mul(n.value, appData.scales[i].v),
                                 warning |-> Null]
           ELSE /\ parsed.value = Zero
                /\ parsed.warning.t = "str"
                /\ \A i \in SameLowercase(appData.scales, sfx) :
                       Contains(parsed.warning.s, appData.scales[i].k)

\* "5tQg" against Tqg = 1e132 and TQg = 1e162
C6_Witness ==
    /\ appData.status = "loaded"
    /\ appData.scales = generateScaleMap
    /\ input = Str(<<"5", "t", "Q", "g">>)
    /\ parsed # NotCalled
    /\ parsed.value = Zero
    /\ parsed.warning.t = "str"
    /\ Contains(parsed.warning.s, <<"T", "q", "g", ",", " ", "T", "Q", "g">>)

\* inputs that are neither a number with a suffix of a table nor, as a
\* whole, a number
Uninterpretable == {Str(<<"5", "x", "y", "z">>), Str(<<"a", "b", "c">>), Str(<<"5", " ", "x", "5">>), Str(<<"1", ".", "5", ".", "2">>)}

\* C7: an input that is neither <decimal number><known suffix> nor, as a
\* whole, a plain number parses to {value: 0, warning: null}.
C7_UninterpretableIsZero ==
    (parsed # NotCalled /\ appData.status = "loaded" /\ input \in Uninterpretable)
    => parsed = [value |-> Zero, warning |-> Null]

\* |x|
AbsNum(x) == IF SignOf(x) < 0 THEN Neg(x) ELSE x

\* a equals b, or differs from it by no more than rounding b to three
\* significant digits can (half a percent)
WithinRounding(a, b) ==
    \/ a = b
    \/ /\ IsFin(a)
       /\ IsFin(b)
       /\ Le(AbsNum(Sub(a, b)), Mul(AbsNum(b), Lit(5, -3)))

\* the parser was given what the formatter returned
Reparsed == formatted # NotCalled /\ parsed # NotCalled /\ input = formatted

\* C8: for every suffix of the table, of magnitude m, and every k in
\* 1 .. MaxK, parseRpsInput(formatNumber(m * k)) is, with no warning, m * k
\* up to the rounding to three significant digits.
C8_RoundTrip ==
    \A k \in 1 .. MaxK :
        (Reparsed /\ appData.status = "loaded")
        => \A i \in DOMAIN appData.scales :
               num = Mul(appData.scales[i].v, Int2Num(k))
               => parsed.warning = Null /\ WithinRounding(parsed.value, num)

\* C9: formatNumber and parseRpsInput return for every input, a string and a
\* {value, warning} record, and never raise; formatNumber of what is no
\* finite number is "0", parseRpsInput of what is no string or is empty is
\* {value: 0, warning: null}.
C9_Total ==
    /\ formatted # Throw
    /\ parsed # Throw
    /\ (formatted # NotCalled => formatted.t = "str")
    /\ (parsed # NotCalled => DOMAIN parsed = {"value", "warning"})
    /\ ((formatted # NotCalled /\ (TypeOf(num) # "number" \/ ~IsFin(num)))
        => formatted = Str(<<"0">>))
    /\ ((parsed # NotCalled /\ (TypeOf(input) # "string" \/ input = Str(<<>>)))
        => parsed = [value |-> Zero, warning |-> Null])

\* NaN formatted and undefined parsed
C9_Witness ==
    /\ num = NaN
    /\ formatted = Str(<<"0">>)
    /\ input = Undefined
    /\ parsed = [value |-> Zero, warning |-> Null]

(***************************************************************************)
(* formatTime, called on its own                                           *)
(***************************************************************************)
\* the band edges and their neighbours, unit boundaries, and a grid
\* k * 10^e
SecondsValues ==
    { NaN, Infinity, NegInfinity, Lit(-5, 0), Lit(-5, -1), Zero, Lit(5, -1),
      Lit(999, -3), One, Lit(15, -1), Lit(59, 0), Lit(61, 0), Lit(3599, 0),
      Lit(86399, 0), Lit(90061, 0), Lit(31536, 3), Lit(31536, 5),
      Lit(315360001, 1), Lit(63072, 5), Lit(1, 300),
      Lit(595, -1), Lit(3661, 0), Lit(31622401, 0), Lit(63345906, 0) }
    \cup {Num(k, 1, e) : k \in 1 .. MaxK, e \in 0 .. 9}

InitTime ==
    /\ appData = LoadingData
    /\ NoSim /\ NoScale /\ NoTime /\ NoPage

\* formatTime(totalSeconds)
FormatTimeCall ==
    /\ totalSeconds = NotCalled
    /\ \E s \in SecondsValues, rnd \in RandomIndexes :
         /\ totalSeconds' = s
         /\ timeText' = formatTime(s, rnd)
    /\ UNCHANGED <<appData, simVars, scaleVars, pageVars>>

NextTime == FormatTimeCall

SpecTime == InitTime /\ [][NextTime]_vars

\* whether s ends with the characters w
EndsWith(s, w) == Len(w) <= Len(s) /\ SubSeq(s, Len(s) - Len(w) + 1, Len(s)) = w

\* a text of counted units: it starts with a digit and ends with a unit
Decomposed(text) ==
    /\ text # <<>>
    /\ IsDigit(text[1])
    /\ \E u \in DOMAIN units :
           EndsWith(text, units[u].l) \/ EndsWith(text, units[u].l \o <<"s">>)

\* C10: formatTime gives "..." for negative or non-finite seconds; else
\* "Instant" for seconds < 1; else a member of foreverQuotes for seconds
\* strictly above 100 * 31,536,000; values in [1, 100 years], and only they,
\* are decomposed into units.
C10_Bands ==
    timeText # NotCalled
    => IF ~IsFin(totalSeconds) \/ Lt(totalSeconds, Zero)
       THEN timeText = <<".", ".", ".">>
       ELSE IF Lt(totalSeconds, One)
       THEN timeText = <<"I", "n", "s", "t", "a", "n", "t">>
       ELSE IF Gt(totalSeconds, Lit(31536, 5))
       THEN \E q \in DOMAIN foreverQuotes : timeText = foreverQuotes[q]
       ELSE Decomposed(timeText)

\* exactly 100 years is still decomposed
C10_Witness ==
    /\ totalSeconds = Lit(31536, 5)
    /\ timeText = <<"1", "0", "0", " ", "y", "e", "a", "r", "s">>


(***************************************************************************)
(* The simulator and formatTime together                                   *)
(***************************************************************************)
\* the call simulate(rune, 0, 3, 1e6, 1) on {chance: 1e12, bonuses: []} has
\* returned
ExampleCallDone ==
    /\ pc = "done"
    /\ rune.chance = Lit(1, 12)
    /\ rune.bonuses = Arr(<<>>)
    /\ startCount = 0
    /\ endCount = 3
    /\ initialSpeed = Lit(1, 6)
    /\ initialBulk = One

\* C11: with rune {chance: 1e12, bonuses: []}, simulate(rune, 0, 3, 1e6, 1)
\* returns totalTimeSeconds = 3,000,000, and formatTime(3,000,000) is
\* "34 days, 17 hours, 20 minutes".
C11_EndToEndExample ==
    ExampleCallDone
    => /\ result.totalTime = Lit(3, 6)
       /\ \A rnd \in RandomIndexes :
              formatTime(result.totalTime, rnd) = <<"3", "4", " ", "d", "a", "y", "s", ",", " ", "1", "7", " ", "h", "o", "u", "r", "s", ",", " ", "2", "0", " ", "m", "i", "n", "u", "t", "e", "s">>

\* C11 as stated: formatTime of the returned 3,000,000 is
\* "34 days, 17 hours, 46 minutes".
C11_ExampleAsStated ==
    ExampleCallDone
    => /\ result.totalTime = Lit(3, 6)
       /\ \A rnd \in RandomIndexes :
              formatTime(result.totalTime, rnd) = <<"3", "4", " ", "d", "a", "y", "s", ",", " ", "1", "7", " ", "h", "o", "u", "r", "s", ",", " ", "4", "6", " ", "m", "i", "n", "u", "t", "e", "s">>

\* the example call returned, three steps of 1,000,000 seconds each traced
C11_Witness ==
    /\ ExampleCallDone
    /\ count = 3
    /\ result.totalTime = Lit(3, 6)
    /\ Len(result.traceLog) = 3
    /\ Contains(result.traceLog[3], <<"T", "i", "m", "e", ":", " ", "1", "1", " ", "d", "a", "y", "s", ",", " ", "1", "3", " ", "h", "o", "u", "r", "s", ",", " ", "4", "6", " ", "m", "i", "n", "u", "t", "e", "s">>)


\* the whole years in a number of seconds of at most 100 years
WholeYears(seconds) ==
    CHOOSE y \in 0 .. 100 :
        /\ Le(Mul(Int2Num(y), Lit(31536, 3)), seconds)
        /\ Lt(seconds, Mul(Int2Num(y + 1), Lit(31536, 3)))

\* the years, days, hours, minutes and seconds that sum to floor(seconds),
\* with days < 365, hours < 24, minutes < 60 and seconds < 60
UnitCounts(seconds) ==
    LET Split(y, r) ==
            <<y, r \div 86400, (r % 86400) \div 3600, (r % 3600) \div 60, r % 60>>
    IN  Split(WholeYears(seconds),
              FloorInt(Sub(seconds, Mul(Int2Num(WholeYears(seconds)), Lit(31536, 3)))))

UnitNames == <<<<"y", "e", "a", "r">>, <<"d", "a", "y">>, <<"h", "o", "u", "r">>, <<"m", "i", "n", "u", "t", "e">>, <<"s", "e", "c", "o", "n", "d">>>>

\* "<n> <unit>" for each non-zero count from unit i on, the unit with a
\* trailing "s" exactly when its count is above 1
RECURSIVE NonZeroParts(_, _)
NonZeroParts(counts, i) ==
    IF i > Len(counts) THEN <<>>
    ELSE (IF counts[i] = 0 THEN <<>>
          ELSE <<IntToStr(counts[i]) \o <<" ">> \o UnitNames[i]
                     \o (IF counts[i] > 1 THEN <<"s">> ELSE <<>>)>>)
         \o NonZeroParts(counts, i + 1)

\* the first three parts, or all of them when there are fewer
FirstThree(parts) == SubSeq(parts, 1, IF Len(parts) < 3 THEN Len(parts) ELSE 3)

\* C12: for seconds in [1, 100 years] formatTime writes the greedy
\* decomposition of floor(seconds) into years of 31,536,000 s, days, hours,
\* minutes and seconds (days < 365, hours < 24, minutes < 60, seconds < 60):
\* only the units with a non-zero count, largest first, the first three of
\* them, at least one, each unit name with a trailing "s" exactly when its
\* count is above 1.
C12_GreedyDecomposition ==
    (/\ timeText # NotCalled
     /\ IsFin(totalSeconds)
     /\ Ge(totalSeconds, One)
     /\ Le(totalSeconds, Lit(31536, 5)))
    => /\ UnitCounts(totalSeconds)[2] < 365
       /\ NonZeroParts(UnitCounts(totalSeconds), 1) # <<>>
       /\ timeText = Join(FirstThree(NonZeroParts(UnitCounts(totalSeconds), 1)))

\* five non-zero units, three of them written, all plural
C12_Witness ==
    /\ totalSeconds = Lit(63345906, 0)
    /\ timeText = <<"2", " ", "y", "e", "a", "r", "s", ",", " ", "3", " ", "d", "a", "y", "s", ",", " ", "4", " ", "h", "o", "u", "r", "s">>


(***************************************************************************)
(* The page: mount effects, the dataset fetch, renders (App.jsx 517-602)   *)
(***************************************************************************)
\* a rune chance of the special-cost kind
SpecialChance == [t |-> "object", value |-> Lit(5, 0), unit |-> Str(<<"T", "o", "k", "e", "n", "s">>)]

CatalogRune(name, chance, max, bonuses) ==
    [t |-> "object", name |-> Str(name), chance |-> chance, max |-> max,
     bonuses |-> bonuses]

\* datasets of runes: all of numeric chance; the rune named by the default
\* selection of special cost; no rune of that name and a special-cost rune first
RuneCatalogs ==
    { << CatalogRune(<<"A", "l", "p", "h", "a">>, Lit(12, 0), Lit(3, 0), Arr(<<>>)),
         CatalogRune(<<"S", "u", "p", "e", "r", "s", "t", "a", "r">>, Lit(12, 0), Lit(20, 0), Arr(<<>>)) >>,
      << CatalogRune(<<"S", "u", "p", "e", "r", "s", "t", "a", "r">>, SpecialChance, Lit(20, 0), Arr(<<>>)),
         CatalogRune(<<"A", "l", "p", "h", "a">>, Lit(12, 0), Lit(3, 0), Arr(<<>>)) >>,
      << CatalogRune(<<"O", "m", "e", "g", "a">>, SpecialChance, Str(<<"N", "/", "A">>), Arr(<<>>)),
         CatalogRune(<<"A", "l", "p", "h", "a">>, Lit(12, 0), Lit(3, 0), Arr(<<>>)) >> }

\* what an earlier session left in localStorage: its save effect wrote all
\* six keys
PreviousSessions ==
    [rawRpsInput : {Str(<<"5", "K">>), Str(<<>>)},
     selectedRuneName : {Str(<<"A", "l", "p", "h", "a">>), Str(<<"S", "u", "p", "e", "r", "s", "t", "a", "r">>)},
     currentCount : {Str(<<"1">>), Str(<<>>)},
     targetCount : {Str(<<"3">>)},
     runeSpeed : {Str(<<"2">>), Str(<<>>)},
     runeBulk : {Str(<<"1">>)}]

\* appData of the page: the dataset with its runes
PageLoading == [status |-> "loading", scales |-> Null, runes |-> Null]

PageFailed == [status |-> "error", scales |-> <<>>, runes |-> <<>>]

PageLoaded(runes, scales) == [status |-> "loaded", scales |-> scales, runes |-> runes]

\* the first page load, or a later one
InitPage ==
    /\ appData = PageLoading
    /\ \/ localStorage = NoStorage
       \/ localStorage \in PreviousSessions
    /\ savedBefore = localStorage
    /\ inputs = Defaults
    /\ queued = NothingQueued
    /\ queuedData = NoData
    /\ mounted = FALSE
    /\ fetchState = "idle"
    /\ saveEffectPending = FALSE
    /\ edited = FALSE
    /\ simCall = NotCalled
    /\ NoSim /\ NoScale /\ NoTime

\* the load effect: if (saved) setX(saved), for five of the keys
LoadEffect(storage, updates) ==
    [k \in InputKeys |->
        IF k \in LoadedKeys /\ Truthy(storage[k]) THEN storage[k] ELSE updates[k]]

\* the save effect: localStorage.setItem for the six keys, with the values
\* of the render it belongs to
SaveEffect(storage, values) == [k \in InputKeys |-> values[k]]

\* runes.find(numeric chance and numeric max) || runes[0]
RECURSIVE FirstWithNumbers(_, _)
FirstWithNumbers(runes, i) ==
    IF i > Len(runes) THEN Undefined
    ELSE IF TypeOf(runes[i].chance) = "number" /\ TypeOf(runes[i].max) = "number"
    THEN runes[i]
    ELSE FirstWithNumbers(runes, i + 1)

defaultRune(runes) ==
    IF Truthy(FirstWithNumbers(runes, 1)) THEN FirstWithNumbers(runes, 1)
    ELSE IF runes # <<>> THEN runes[1]
    ELSE Undefined

\* parseInt(s, 10): white space skipped, an optional sign, the leading digits;
\* NaN when there is none
parseInt(s) ==
    LET Digits(t, neg, p, a) ==
            IF a = 0 THEN NaN
            ELSE Num((IF neg THEN -1 ELSE 1) * DigitsVal(SubSeq(t, p, p + a - 1)), 1, 0)
        Signed(t, neg, p) == Digits(t, neg, p, DigitRun(t, p))
        Start(t, neg) == Signed(t, neg, IF neg \/ HasAt(t, 1, <<"+">>) THEN 2 ELSE 1)
    IN  Start(TrimLeft(s), HasAt(TrimLeft(s), 1, <<"-">>))

\* String(x) of a number or a string
StringOf(x) == IF x.t = "str" THEN x.s ELSE NumberToString(x)

\* s.replace(/,/g, '')
RECURSIVE RemoveCommas(_)
RemoveCommas(s) ==
    IF s = <<>> THEN <<>>
    ELSE (IF Head(s) = "," THEN <<>> ELSE <<Head(s)>>) \o RemoveCommas(Tail(s))

\* parseInt(text, 10) || 0
CountOf(text) == IF Truthy(parseInt(text.s)) THEN parseInt(text.s) ELSE Zero

\* runesData.find(r => r.name === selectedRuneName)
RECURSIVE FindRune(_, _)
FindRune(runes, name) ==
    IF runes = <<>> THEN Undefined
    ELSE IF Head(runes).name = name THEN Head(runes)
    ELSE FindRune(Tail(runes), name)

\* the call a calculator makes of calculateCompoundingTime
SimCall(by, found, startCount0, endCount0, speed, bulk) ==
    [t |-> "call", by |-> by, rune |-> found, startCount |-> startCount0,
     endCount |-> endCount0, initialSpeed |-> speed, initialBulk |-> bulk]

\* the useMemo of a calculator past the lookup of the rune: the early returns
\* and the call
Calculation(by, found, startCount0, endCount0, speed, bulk, last) ==
    IF isNaN(endCount0) THEN last
    ELSE IF Le(Sub(endCount0, startCount0), Zero) THEN last
    ELSE IF Le(Mul(speed, bulk), Zero) THEN last
    ELSE SimCall(by, found, startCount0, endCount0, speed, bulk)

\* parseRpsInput(runeSpeed).value and parseRpsInput(runeBulk).value
ParsedRates(su, values) ==
    [k \in {"runeSpeed", "runeBulk"} |-> parseRpsInput(su, values[k]).value]

\* TimeToMaxCalculator's calculation
TimeToMaxCalculation(found, rates, values, last) ==
    IF ~Truthy(found) THEN last
    ELSE Calculation("timetomax", found, CountOf(values.currentCount),
                     parseInt(RemoveCommas(StringOf(found.max))),
                     rates.runeSpeed, rates.runeBulk, last)

\* TimeToXCalculator's calculation
TimeToXCalculation(found, rates, values, last) ==
    IF ~Truthy(found) THEN last
    ELSE Calculation("timetox", found, CountOf(values.currentCount),
                     CountOf(values.targetCount),
                     rates.runeSpeed, rates.runeBulk, last)

\* the tabs of the page that matter here
Tabs == {"calculator", "timetomax", "timetox"}

\* the calculation of the tab that a render shows: a calculator is rendered
\* once the dataset is loaded
TabCalculation(activeTab, data, found, rates, values, last) ==
    IF data.status # "loaded" \/ activeTab = "calculator" THEN last
    ELSE IF activeTab = "timetomax"
    THEN TimeToMaxCalculation(found, rates, values, last)
    ELSE TimeToXCalculation(found, rates, values, last)

\* the mount effects, in the order of their declaration: the fetch is
\* started, the load effect sets the stored values, the save effect writes
\* the values of the first render
Mount ==
    /\ ~mounted
    /\ mounted' = TRUE
    /\ fetchState' = "pending"
    /\ queued' = LoadEffect(localStorage, queued)
    /\ localStorage' = SaveEffect(localStorage, inputs)
    /\ UNCHANGED <<appData, savedBefore, inputs, queuedData, saveEffectPending,
                   edited, simCall, simVars, scaleVars, timeVars>>

\* a render with the queued updates, of one of the tabs; the save effect is
\* due when one of its dependencies changed
Render ==
    /\ mounted
    /\ ~saveEffectPending
    /\ (queued # NothingQueued \/ queuedData.status # "none")
    /\ \E next \in {[k \in InputKeys |-> IF queued[k].t = "str" THEN queued[k] ELSE inputs[k]]} :
       \E data \in {IF queuedData.status # "none" THEN queuedData ELSE appData} :
       \E activeTab \in Tabs :
       \E found \in {IF data.status = "loaded"
                      THEN FindRune(data.runes, next.selectedRuneName)
                      ELSE Undefined} :
       \E rates \in {IF data.status = "loaded"
                      THEN ParsedRates(scaleUtils(data), next)
                      ELSE <<>>} :
         /\ inputs' = next
         /\ saveEffectPending' = (next # inputs)
         /\ appData' = data
         /\ simCall' = TabCalculation(activeTab, data, found, rates, next, simCall)
    /\ queued' = NothingQueued
    /\ queuedData' = NoData
    /\ UNCHANGED <<localStorage, savedBefore, mounted, fetchState, edited,
                   simVars, scaleVars, timeVars>>

\* the save effect after a render
SaveEffectRun ==
    /\ saveEffectPending
    /\ localStorage' = SaveEffect(localStorage, inputs)
    /\ saveEffectPending' = FALSE
    /\ UNCHANGED <<appData, savedBefore, inputs, queued, queuedData, mounted,
                   fetchState, edited, simCall, simVars, scaleVars, timeVars>>

\* both responses arrived: the selected rune is set from localStorage or the
\* default rune, the dataset is set; reading the name of no rune throws
FetchOk ==
    /\ fetchState = "pending"
    /\ \E runes \in RuneCatalogs \cup {<<>>} :
         IF ~Truthy(localStorage.selectedRuneName) /\ defaultRune(runes) = Undefined
         THEN /\ queuedData' = PageFailed
              /\ queued' = queued
              /\ fetchState' = "failed"
         ELSE /\ queued' = [queued EXCEPT !.selectedRuneName =
                               IF Truthy(localStorage.selectedRuneName)
                               THEN localStorage.selectedRuneName
                               ELSE defaultRune(runes).name]
              /\ queuedData' = PageLoaded(runes, SmallScales)
              /\ fetchState' = "done"
    /\ UNCHANGED <<appData, localStorage, savedBefore, inputs, mounted,
                   saveEffectPending, edited, simCall, simVars, scaleVars, timeVars>>

\* a failure that also comes after the dataset arrived
FetchFailLate ==
    /\ fetchState \in {"pending", "done"}
    /\ queuedData' = PageFailed
    /\ fetchState' = "failed"
    /\ UNCHANGED <<appData, localStorage, savedBefore, inputs, queued, mounted,
                   saveEffectPending, edited, simCall, simVars, scaleVars, timeVars>>

\* a response was not ok, or the fetch failed
FetchFail ==
    /\ fetchState = "pending"
    /\ queuedData' = PageFailed
    /\ fetchState' = "failed"
    /\ UNCHANGED <<appData, localStorage, savedBefore, inputs, queued, mounted,
                   saveEffectPending, edited, simCall, simVars, scaleVars, timeVars>>

\* the names offered by the select of the Time to X tab
RECURSIVE SelectOptions(_)
SelectOptions(runes) ==
    IF runes = <<>> THEN {}
    ELSE (IF TypeOf(Head(runes).chance) = "number" THEN {Head(runes).name} ELSE {})
         \cup SelectOptions(Tail(runes))

\* the user picks a rune in the select, or types a count
Edit ==
    /\ appData.status = "loaded"
    /\ \/ \E name \in SelectOptions(appData.runes) :
            queued' = [queued EXCEPT !.selectedRuneName = name]
       \/ \E text \in {Str(<<"2">>), Str(<<>>), Str(<<"-", "5">>)} :
            queued' = [queued EXCEPT !.currentCount = text]
    /\ edited' = TRUE
    /\ UNCHANGED <<appData, localStorage, savedBefore, inputs, queuedData, mounted,
                   fetchState, saveEffectPending, simCall, simVars, scaleVars,
                   timeVars>>

NextPage == Mount \/ Render \/ SaveEffectRun \/ FetchOk \/ FetchFail \/ Edit

SpecPage == InitPage /\ [][NextPage]_vars

\* the page has finished loading: the mount effects ran, the dataset is
\* rendered, no update and no effect is outstanding
PageSettled ==
    /\ mounted
    /\ fetchState = "done"
    /\ appData.status = "loaded"
    /\ queued = NothingQueued
    /\ queuedData.status = "none"
    /\ ~saveEffectPending

FormattedFinite ==
    /\ formatted # NotCalled
    /\ appData.status = "loaded"
    /\ TypeOf(num) = "number"
    /\ IsFin(num)

\* the decimal digits of a whole number, a minus sign before a negative one
SignedDigits(x) ==
    (IF x.n < 0 THEN <<"-">> ELSE <<>>) \o IntToStr(Abs(FloorInt(x)))

\* the entries of a table with a positive magnitude at most x
Fitting(scales, x) ==
    {i \in DOMAIN scales : Gt(scales[i].v, Zero) /\ Le(scales[i].v, x)}

\* C14: with the scale table loaded, a whole number strictly below 1000 is
\* formatted as its plain digits, no suffix and no trailing space; 1000 and
\* above, and non-integers, take the suffix path: the text ends with a space
\* and the suffix of an entry that fits, or no entry fits and the text holds
\* no space.
C14_SmallIntegersPlain ==
    FormattedFinite
    => IF IsInteger(num) /\ Lt(num, Lit(1, 3))
       THEN formatted = Str(SignedDigits(num))
       ELSE \/ \E i \in Fitting(appData.scales, num) :
                   EndsWith(formatted.s, <<" ">> \o appData.scales[i].k)
            \/ /\ Fitting(appData.scales, num) = {}
               /\ ~Contains(formatted.s, <<" ">>)

\* 999 as "999", in a table whose empty suffix would have fitted
C14_Witness ==
    /\ FormattedFinite
    /\ appData.scales = SmallScales
    /\ num = Lit(999, 0)
    /\ formatted = Str(<<"9", "9", "9">>)


\* formatNumber took the path of the suffixes: the number is not a whole
\* number below 1000
OnSuffixPath == FormattedFinite /\ ~(IsInteger(num) /\ Lt(num, Lit(1, 3)))

\* r has at most three significant digits and is as near to q as a number
\* of three significant digits can be: 2 * |r - q| <= 10^(order of q - 2)
RoundsToThreeDigits(r, q) ==
    /\ r.t = "num"
    /\ r.d = 1
    /\ Abs(r.n) < 1000
    /\ (q.n = 0 => r.n = 0)
    /\ (q.n # 0 => Le(Mul(AbsNum(Sub(r, q)), Lit(2, 0)), Lit(1, Order10(q) - 2)))

\* C15: on the suffix path formatNumber takes an entry of the largest
\* magnitude that is positive and at most the number, never one of magnitude
\* 0 or below, and writes number / magnitude rounded to three significant
\* digits, trailing zeros stripped, a space and that entry's suffix; when no
\* entry fits it writes the number rounded to three significant digits and
\* no suffix.
C15_LargestFittingEntry ==
    OnSuffixPath
    => IF Fitting(appData.scales, num) = {}
       THEN /\ ~Contains(formatted.s, <<" ">>)
            /\ RoundsToThreeDigits(parseFloat(formatted.s), num)
       ELSE \E i \in Fitting(appData.scales, num) :
               /\ \A j \in Fitting(appData.scales, num) :
                      Le(appData.scales[j].v, appData.scales[i].v)
               /\ formatted.s = NumberToString(parseFloat(formatted.s))
                                    \o <<" ">> \o appData.scales[i].k
               /\ RoundsToThreeDigits(parseFloat(formatted.s),
                                      Div(num, appData.scales[i].v))

\* 1234567 against K and M: "1.23 M"; and 0.5 in a table with a zero
\* magnitude: "0.500"
C15_Witness ==
    /\ OnSuffixPath
    /\ \/ /\ appData.scales = SmallScales
          /\ num = Lit(1234567, 0)
          /\ formatted = Str(<<"1", ".", "2", "3", " ", "M">>)
       \/ /\ appData.scales = OddScales
          /\ num = Lit(5, -1)
          /\ formatted = Str(<<"0", ".", "5", "0", "0">>)


\* the entry formatNumber selects is the one of the empty suffix: it fits
\* and no fitting entry has a larger magnitude
EmptySuffixSelected ==
    /\ OnSuffixPath
    /\ \E i \in Fitting(appData.scales, num) :
           /\ appData.scales[i].k = <<>>
           /\ \A j \in Fitting(appData.scales, num) :
                  j # i => Lt(appData.scales[j].v, appData.scales[i].v)

\* C16: when the entry formatNumber selects is the empty-suffix entry, the
\* returned string is the bare rounded number: no suffix, no separator and
\* no trailing white space.
C16_EmptySuffixBare ==
    EmptySuffixSelected
    => /\ ~Contains(formatted.s, <<" ">>)
       /\ formatted.s = NumberToString(parseFloat(formatted.s))


(***************************************************************************)
(* Two calls with the same arguments                                       *)
(***************************************************************************)
\* a call has returned after an earlier one with the same arguments
BothReturned == pc = "done" /\ firstResult # NotCalled

\* two trace lines that differ at most in which member of foreverQuotes
\* stands for the time
SameButForQuote(a, b) ==
    \/ a = b
    \/ \E i, j \in DOMAIN foreverQuotes :
           /\ EndsWith(a, foreverQuotes[i])
           /\ EndsWith(b, foreverQuotes[j])
           /\ SubSeq(a, 1, Len(a) - Len(foreverQuotes[i]))
                  = SubSeq(b, 1, Len(b) - Len(foreverQuotes[j]))

\* C17: two calls of the simulator with identical arguments return the same
\* totalTime and finalRps and trace logs of one length that agree entry for
\* entry, but for the member of foreverQuotes that formatTime draws at random
\* as the time of a step longer than a century; and no step of a call changes
\* the rune, its bonus list, the other arguments or any state outside the
\* call.
C17_SameResultButForQuotes ==
    /\ [](BothReturned =>
            /\ result.totalTime = firstResult.totalTime
            /\ result.finalRps = firstResult.finalRps
            /\ Len(result.traceLog) = Len(firstResult.traceLog)
            /\ \A i \in DOMAIN result.traceLog :
                   SameButForQuote(result.traceLog[i], firstResult.traceLog[i]))
    /\ [][/\ rune' = rune
          /\ <<startCount, endCount, initialSpeed, initialBulk>>'
                 = <<startCount, endCount, initialSpeed, initialBulk>>
          /\ appData' = appData
          /\ <<scaleVars, timeVars, pageVars>>' = <<scaleVars, timeVars, pageVars>>]_vars

\* C17 as stated: the second call returns what the first returned, the trace
\* log entry for entry
C17_IdenticalResults == BothReturned => result = firstResult

\* two calls with the same arguments have returned the same totals and trace
\* logs that name different quotes
C17_Witness ==
    /\ BothReturned
    /\ result.totalTime = firstResult.totalTime
    /\ result.traceLog # <<>>
    /\ result.traceLog # firstResult.traceLog

\* C18: a calculator calls the simulator only for a rune whose chance is a
\* plain number, whatever name the selected-rune state holds.
C18_OnlyNumericChanceSimulated ==
    simCall.t = "call" => TypeOf(simCall.rune.chance) = "number"

\* the magnitudes of a sorted table never rise
Descending(entries) ==
    \A i, j \in DOMAIN entries : i < j => ~Lt(entries[i].v, entries[j].v)

\* every magnitude of a table is above zero
AllPositive(entries) == \A i \in DOMAIN entries : Gt(entries[i].v, Zero)

\* no two entries of a table have one magnitude
DistinctMagnitudes(entries) ==
    \A i, j \in DOMAIN entries : i # j => entries[i].v # entries[j].v

\* C19: the scale table built from a dataset is ordered by descending
\* magnitude, every magnitude in it is positive, and no two entries have the
\* same magnitude.
C19_ScaleTableInvariants ==
    appData.status = "loaded"
    => /\ Descending(scaleEntries(appData.scales))
       /\ AllPositive(scaleEntries(appData.scales))
       /\ DistinctMagnitudes(scaleEntries(appData.scales))

IsLinearMultiplier(bonus) ==
    bonus.modifier = "multiplier" /\ ~bonus.isExponential /\ ~bonus.isDualExponential

\* a bonus that takes part in the simulation
Participates(bonus) ==
    TypeOf(bonus.value) = "number" /\ bonus.type \in {"runeSpeed", "runeBulk"}

\* the rate r after one bonus, by its modifier
StatedRule(bonus, r) ==
    IF bonus.modifier = "additive" THEN Add(r, bonus.value)
    ELSE IF bonus.modifier = "multiplier" THEN Mul(r, bonus.value)
    ELSE IF bonus.modifier = "power" THEN MathPow(r, bonus.value)
    ELSE r

\* both rates after the bonuses of a list, taken in list order
RECURSIVE StatedRates(_, _, _)
StatedRates(speed, bulk, bonuses) ==
    IF bonuses = <<>> THEN <<speed, bulk>>
    ELSE IF ~Participates(Head(bonuses)) THEN StatedRates(speed, bulk, Tail(bonuses))
    ELSE IF Head(bonuses).type = "runeSpeed"
    THEN StatedRates(StatedRule(Head(bonuses), speed), bulk, Tail(bonuses))
    ELSE StatedRates(speed, StatedRule(Head(bonuses), bulk), Tail(bonuses))

\* C21: at every step, each bonus with a numeric magnitude v on runeSpeed or
\* runeBulk updates its rate r to r + v when additive, r * v when an
\* exponential or dual-exponential multiplier, r ^ v when a power, and not at
\* all when subtractive; speed and bulk follow one rule and the bonuses are
\* taken in list order.
C21_BonusRules ==
    [][(/\ Stepped
        /\ \A i \in DOMAIN rune.bonuses.a : ~IsLinearMultiplier(rune.bonuses.a[i]))
       => <<currentSpeed, currentBulk>>'
            = StatedRates(currentSpeed, currentBulk, rune.bonuses.a)]_vars

\* a step has added 1 to the speed 1 and then doubled the sum
C21_Witness ==
    /\ pc = "loop"
    /\ count = startCount + 1
    /\ Len(rune.bonuses.a) = 2
    /\ rune.bonuses.a[1].modifier = "additive"
    /\ rune.bonuses.a[2].isDualExponential
    /\ initialSpeed = One
    /\ currentSpeed = Lit(4, 0)

\* the rune has one bonus, a linear multiplier with a numeric magnitude on
\* runeSpeed or runeBulk
SingleLinearMultiplier ==
    /\ HasBonusList
    /\ Len(rune.bonuses.a) = 1
    /\ IsLinearMultiplier(rune.bonuses.a[1])
    /\ Participates(rune.bonuses.a[1])

\* M(c) = 1 + c * (v - 1), clamped above by the cap when the bonus has one
AccumulatedMultiplier(bonus, c) ==
    IF TypeOf(bonus.max) = "number"
    THEN MathMin(Add(One, Mul(Int2Num(c), Sub(bonus.value, One))), bonus.max)
    ELSE Add(One, Mul(Int2Num(c), Sub(bonus.value, One)))

\* the rate r after the step at count c: times M(c+1) / M(c) when M(c) > 0
\* and M(c+1) differs from M(c)
StatedDelta(bonus, c, r) ==
    IF Gt(AccumulatedMultiplier(bonus, c), Zero)
       /\ ~NumEq(AccumulatedMultiplier(bonus, c + 1), AccumulatedMultiplier(bonus, c))
    THEN Mul(r, Div(AccumulatedMultiplier(bonus, c + 1), AccumulatedMultiplier(bonus, c)))
    ELSE r

\* the rate the one bonus of the rune is on, and its value at the call
TargetRate(speed, bulk) == IF rune.bonuses.a[1].type = "runeSpeed" THEN speed ELSE bulk

\* C22: with a single linear multiplier of magnitude v and an optional cap,
\* each step at count c multiplies the targeted rate by M(c+1) / M(c) when
\* M(c) > 0 and M(c+1) # M(c) and leaves it unchanged otherwise, and while
\* every M(c) so far is positive the rate is the initial rate times
\* M(count) / M(startCount), for every cap that is present.
C22_LinearMultiplierDelta ==
    /\ [][(SingleLinearMultiplier /\ Stepped)
          => TargetRate(currentSpeed, currentBulk)'
               = StatedDelta(rune.bonuses.a[1], count,
                             TargetRate(currentSpeed, currentBulk))]_vars
    /\ []((/\ SingleLinearMultiplier
           /\ pc = "loop"
           /\ \A c \in startCount .. count :
                  Gt(AccumulatedMultiplier(rune.bonuses.a[1], c), Zero))
          => TargetRate(currentSpeed, currentBulk)
               = Mul(TargetRate(initialSpeed, initialBulk),
                     Div(AccumulatedMultiplier(rune.bonuses.a[1], count),
                         AccumulatedMultiplier(rune.bonuses.a[1], startCount))))

\* no bonus of the rune takes part in the simulation
OnlyInertBonuses ==
    HasBonusList /\ \A i \in DOMAIN rune.bonuses.a : ~Participates(rune.bonuses.a[i])

\* no bonus of the rune that takes part is on the stat
NoBonusOn(stat) ==
    \A i \in DOMAIN rune.bonuses.a :
        Participates(rune.bonuses.a[i]) => rune.bonuses.a[i].type # stat

\* totalTime and finalRps of a call for a rune with an empty bonus list
EmptyListTotals ==
    IF ~(startCount < endCount)
    THEN <<Zero, Mul(initialSpeed, initialBulk)>>
    ELSE IF Le(Mul(initialSpeed, initialBulk), Zero) THEN <<Infinity, Zero>>
    ELSE <<Div(Mul(Int2Num(endCount - startCount), rune.chance),
               Mul(initialSpeed, initialBulk)),
           Mul(initialSpeed, initialBulk)>>

\* C23: a step changes currentSpeed only by bonuses with a numeric magnitude
\* on runeSpeed and currentBulk only by such bonuses on runeBulk, so bonuses
\* on another stat or with a magnitude that is no number change neither, and
\* a rune with only such bonuses returns the totalTime and finalRps of the
\* rune with an empty list.
C23_InertBonuses ==
    /\ [][Stepped
          => /\ NoBonusOn("runeSpeed") => currentSpeed' = currentSpeed
             /\ NoBonusOn("runeBulk") => currentBulk' = currentBulk]_vars
    /\ []((pc = "done" /\ OnlyInertBonuses)
          => <<result.totalTime, result.finalRps>> = EmptyListTotals)

\* three runes at speed 2 and bulk 1 with an energy bonus, a bonus of
\* magnitude "?" and one of no magnitude: 3 * 12 / 2 = 18 s
C23_Witness ==
    /\ pc = "done"
    /\ OnlyInertBonuses
    /\ Len(rune.bonuses.a) = 3
    /\ startCount = 0
    /\ endCount = 3
    /\ initialSpeed = Lit(2, 0)
    /\ initialBulk = One
    /\ result.totalTime = Lit(18, 0)
    /\ result.finalRps = Lit(2, 0)

\* C24: a step charges chance / (currentSpeed * currentBulk) at the rates it
\* starts with, adds it to the total and then applies the bonuses once; so
\* after the first step the total is chance / (initialSpeed * initialBulk),
\* and the finalRps returned is the product of the rates left by the bonuses
\* of the last step.
C24_StepOrdering ==
    /\ [][Stepped
          => /\ totalTimeSeconds'
                  = Add(totalTimeSeconds,
                        Div(rune.chance, Mul(currentSpeed, currentBulk)))
             /\ [speed |-> currentSpeed', bulk |-> currentBulk']
                  = ApplyBonuses([speed |-> currentSpeed, bulk |-> currentBulk],
                                 rune.bonuses.a, count)]_vars
    /\ []((pc = "loop" /\ count = startCount + 1)
          => totalTimeSeconds = Div(rune.chance, Mul(initialSpeed, initialBulk)))
    /\ [][(pc = "loop" /\ pc' = "done" /\ ~(count < endCount))
          => result'.finalRps = Mul(currentSpeed, currentBulk)]_vars

\* the speed doubled at each of two steps from speed 1 and bulk 1: 12 s and
\* 6 s are charged, and the final rate is 4
C24_Witness ==
    /\ pc = "done"
    /\ HasBonusList
    /\ Len(rune.bonuses.a) = 1
    /\ rune.bonuses.a[1].isExponential
    /\ rune.chance = Lit(12, 0)
    /\ startCount = 0
    /\ endCount = 2
    /\ initialSpeed = One
    /\ initialBulk = One
    /\ result.totalTime = Lit(18, 0)
    /\ result.finalRps = Lit(4, 0)

\* the result of a call that ran no iteration
NoIterationResult ==
    [totalTime |-> Zero, finalRps |-> Mul(initialSpeed, initialBulk), traceLog |-> <<>>]

\* C25 as stated: every call returns; with startCount < endCount it runs
\* endCount - startCount iterations when the rps stays positive and fewer
\* otherwise, stopping at the first step with rps <= 0; with
\* startCount >= endCount it runs none and returns totalTime 0,
\* finalRps = initialSpeed * initialBulk and an empty trace.
C25_TerminatesAsStated ==
    /\ <>(pc = "done")
    /\ [][Stepped => Gt(Mul(currentSpeed, currentBulk), Zero)]_vars
    /\ [](pc = "done"
          => IF startCount < endCount
             THEN /\ startCount <= count /\ count <= endCount
                  /\ count < endCount => Le(Mul(currentSpeed, currentBulk), Zero)
             ELSE count = startCount /\ result = NoIterationResult)

\* C25: every call returns; for a rune with a bonus list and
\* startCount < endCount it runs endCount - startCount iterations unless a
\* step finds rps <= 0, where it stops (an rps of NaN is not <= 0 and stops
\* nothing); with startCount >= endCount it runs none and returns totalTime
\* 0, finalRps = initialSpeed * initialBulk and an empty trace; for a rune
\* without a bonus list it runs none and returns totalTime +Infinity,
\* finalRps 0 and an empty trace, whatever the counts.
C25_Terminates ==
    /\ <>(pc = "done")
    /\ [][Stepped => ~Le(Mul(currentSpeed, currentBulk), Zero)]_vars
    /\ []((pc = "done" /\ HasBonusList)
          => IF startCount < endCount
             THEN /\ startCount <= count /\ count <= endCount
                  /\ count < endCount => Le(Mul(currentSpeed, currentBulk), Zero)
             ELSE count = startCount /\ result = NoIterationResult)
    /\ []((pc = "done" /\ ~HasBonusList)
          => /\ count = 0
             /\ result = [totalTime |-> Infinity, finalRps |-> Zero, traceLog |-> <<>>])

\* three iterations at an rps of NaN have run to the end
C25_Witness ==
    /\ pc = "done"
    /\ HasBonusList
    /\ initialSpeed = NaN
    /\ startCount = 0
    /\ endCount = 3
    /\ count = 3
    /\ result.totalTime = NaN

(***************************************************************************)
(* The arguments the calculators pass                                      *)
(***************************************************************************)
\* C26: a calculator calls the simulator only with a startCount that is an
\* integer >= 0, an endCount that is an integer above it and an
\* initialSpeed * initialBulk above zero.
C26_CallerPreconditions ==
    simCall.t = "call"
    => /\ IsInteger(simCall.startCount)
       /\ Ge(simCall.startCount, Zero)
       /\ IsInteger(simCall.endCount)
       /\ Gt(simCall.endCount, simCall.startCount)
       /\ Gt(Mul(simCall.initialSpeed, simCall.initialBulk), Zero)

(***************************************************************************)
(* Growth bonuses                                                          *)
(***************************************************************************)
\* a bonus that can only raise a rate: an addition of 0 or more, or a
\* multiplier, exponential or linear with any cap, of 1 or more
IsGrowthBonus(bonus) ==
    /\ Participates(bonus)
    /\ \/ bonus.modifier = "additive" /\ Ge(bonus.value, Zero)
       \/ bonus.modifier = "multiplier" /\ Ge(bonus.value, One)

\* a call with positive rates for a rune whose bonuses are all growth bonuses
GrowthRun ==
    /\ HasBonusList
    /\ Gt(initialSpeed, Zero)
    /\ Gt(initialBulk, Zero)
    /\ \A i \in DOMAIN rune.bonuses.a : IsGrowthBonus(rune.bonuses.a[i])

\* (endCount - startCount) * chance / (initialSpeed * initialBulk)
FlatRateTime ==
    Mul(Int2Num(endCount - startCount),
        Div(rune.chance, Mul(initialSpeed, initialBulk)))

\* from one step to the next the rps does not fall and the time of an
\* acquisition does not rise
MonotoneSteps ==
    [][(Stepped /\ GrowthRun)
       => /\ Ge(Mul(currentSpeed', currentBulk'), Mul(currentSpeed, currentBulk))
          /\ Le(TimeForNextRune(rune.chance, Mul(currentSpeed', currentBulk')),
                TimeForNextRune(rune.chance, Mul(currentSpeed, currentBulk)))]_vars

\* the totals of a returned call against the rates it began with
TotalsBounded ==
    /\ Le(result.totalTime, FlatRateTime)
    /\ Ge(result.finalRps, Mul(initialSpeed, initialBulk))

LettersOf(text) == RegexMatch(trim(text.s))[2]

\* C28: a result of parseRpsInput with a warning has value 0, and its input
\* is a string of the form <number><letters> whose letters the lookup in the
\* table does not match in their exact case and whose lowercase form two or
\* more suffixes of the table share; every other result has warning null.
C28_WarningOnlyWhenAmbiguous ==
    (parsed # NotCalled /\ parsed.warning # Null)
    => /\ parsed.value = Zero
       /\ appData.status = "loaded"
       /\ TypeOf(input) = "string"
       /\ RegexMatch(trim(input.s)) # <<>>
       /\ ~Truthy(GetProp(appData.scales, LettersOf(input)))
       /\ Cardinality(SameLowercase(appData.scales, LettersOf(input))) >= 2

\* "1.5aB" against ab, Ab and AB
C28_Witness ==
    /\ appData.status = "loaded"
    /\ appData.scales = CollidingScales
    /\ input = Str(<<"1", ".", "5", "a", "B">>)
    /\ parsed # NotCalled
    /\ parsed.value = Zero
    /\ parsed.warning.t = "str"

(***************************************************************************)
(* The value of the parser                                                 *)
(***************************************************************************)
\* the letters of the input are no suffix of the table, in their exact case
\* or through the lowercase index
UnknownSuffix ==
    /\ appData.status = "loaded"
    /\ RegexMatch(trim(input.s)) # <<>>
    /\ ~HasOwn(appData.scales, LettersOf(input))
    /\ ~HasOwn(lowerCaseScaleMap(appData.scales), toLowerCase(LettersOf(input)))

\* C29: for every input string the value parseRpsInput returns is a number
\* and not NaN; when the input has the form <number><letters> and the letters
\* are no own key of the table, nor their lowercase form one of the
\* lowercase index, the result is the plain-number fallback of the trimmed
\* string.
C29_ValueIsNumber ==
    (parsed # NotCalled /\ TypeOf(input) = "string")
    => /\ TypeOf(parsed.value) = "number"
       /\ ~isNaN(parsed.value)
       /\ UnknownSuffix => parsed = PlainNumber(trim(input.s))

(***************************************************************************)
(* The status of the dataset                                               *)
(***************************************************************************)
\* the status changes from 'loading' only, to 'loaded' or to 'error'
StatusMovesOnce ==
    [][appData.status' # appData.status
       => /\ appData.status = "loading"
          /\ appData.status' \in {"loaded", "error"}]_vars

\* what the parser and the formatter of a render give, whatever the input
ParserAndFormatterIdle ==
    /\ \A s \in ParseInputs :
           parseRpsInput(scaleUtils(appData), s) = [value |-> Zero, warning |-> Null]
    /\ \A n \in FormatInputs(appData) :
           formatNumber(scaleUtils(appData), n) = Str(<<"0">>)

\* C30: the status starts at 'loading', moves once to 'loaded' or 'error'
\* and never back; while it is not 'loaded' parseRpsInput returns
\* {value: 0, warning: null} and formatNumber returns "0" for every input,
\* and no calculator has called the simulator.
C30_StatusGates ==
    /\ appData.status = "loading"
    /\ StatusMovesOnce
    /\ [](appData.status # "loaded"
          => simCall = NotCalled /\ ParserAndFormatterIdle)

\* the fetch has failed and the page is rendered with the rates of an
\* earlier session, which parse to nothing
C30_Witness ==
    /\ appData.status = "error"
    /\ mounted
    /\ inputs.runeSpeed = Str(<<"2">>)
    /\ inputs.currentCount = Str(<<"1">>)
    /\ parseRpsInput(scaleUtils(appData), inputs.runeSpeed).value = Zero
    /\ simCall = NotCalled

=========================================================================
